---- MODULE Spec2Model ----
(***************************************************************************)
(* Model of the podpilot agent <-> hub session protocol.                   *)
(*                                                                         *)
(* Hub side  (crates/podpilot-hub/src): connection registry (state.rs),    *)
(* session handler (ws/handler.rs), heartbeat fanout (ws/heartbeat.rs)     *)
(* and stale-agent cleanup (ws/cleanup.rs), over a clock in seconds.       *)
(* Agent side (crates/podpilot-agent/src/ws/client.rs): the run() loop,    *)
(* connect_and_handle, the heartbeat monitor and handle_hub_message.       *)
(*                                                                         *)
(* The two sides are checked under two specifications, Spec (hub) and      *)
(* AgentSpec (agent); each leaves the other side's variables unchanged.    *)
(***************************************************************************)
EXTENDS Integers, Sequences, FiniteSets, TLC

----------------------------------------------------------------------------
(* Bounds of the model *)

MaxTime == 45            \* hub clock runs 0..MaxTime seconds
MaxSessions == 2         \* accepted websocket connections
MaxRows == 2             \* rows of the agents table
MaxIdents == 2           \* distinct (tailscale_ip, provider_instance_id)
MaxDbErrors == 1         \* database failures injected into the reaper
MaxAgentTime == 125      \* agent clock runs 0..MaxAgentTime seconds
MaxHeartbeats == 2       \* heartbeats logged per agent session
MaxCorr == 2             \* distinct correlation ids
MaxAckTime == 20         \* hub clock bound where HeartbeatAck updates may fail
MaxLiveTime == 70        \* agent clock bound where run() is checked to return
MaxStallTime == 330      \* hub clock bound where an agent may stop reading
MaxQueueTime == 20       \* hub clock bound where agents may read late
MaxEvictTime == 20       \* hub clock bound where the reaper evicts live sessions
MaxTimersTime == 350     \* hub clock bound where every heartbeat written is acked

(* Program constants, in seconds unless noted *)

HeartbeatInterval == 10  \* heartbeat.rs: interval(Duration::from_secs(10))
CleanupInterval == 15    \* cleanup.rs: interval(Duration::from_secs(15))
StaleSeconds == 30       \* cleanup.rs: NOW() - INTERVAL '30 seconds'
QueueCapacity == 32      \* handler.rs: mpsc::channel::<HubMessage>(32)
HEARTBEAT_TIMEOUT == 30           \* client.rs
RECONNECT_INITIAL_BACKOFF == 1    \* client.rs
RECONNECT_MAX_BACKOFF == 60       \* client.rs
RECONNECT_BACKOFF_MULTIPLIER == 2 \* client.rs
RegistrationTimeout == 30         \* client.rs: timeout(Duration::from_secs(30))
HubRegistrationTimeout == 30      \* handler.rs: timeout(Duration::from_secs(30))
MonitorInterval == 5              \* client.rs: interval(Duration::from_secs(5))

Sessions == 1..MaxSessions
RowIds == 1..MaxRows
Identities == 1..MaxIdents
NoAgent == 0
CorrIds == 1..MaxCorr

ActiveStatuses == {"ready", "running", "idle"}
Statuses == {"registering", "ready", "running", "idle", "error", "terminated"}

VARIABLES
    now,            \* hub wall clock (NOW() / Utc::now()), seconds
    db,             \* agents table: RowIds -> row
    connections,    \* AppState.connections: set of <<agent_id, session>>
    sess,           \* per accepted connection: handler position and locals
    queue,          \* per session: contents of the mpsc outbound channel
    rxOpen,         \* per session: outbound_rx still alive
    sequence_map,   \* heartbeat task: agent_id -> last sequence
    hbPending,      \* heartbeat task: snapshot ids still to be sent to
    hbNext,         \* heartbeat task: next tick instant
    reapPending,    \* cleanup task: selected stale ids still to process
    reapCur,        \* cleanup task: id whose UPDATE succeeded, remove pending
    reapNext,       \* cleanup task: next tick instant
    enqLast,        \* history: per session, last sequence enqueued (0: none)
    dbErrors,       \* history: number of failed reaper UPDATEs
    firstOut,       \* history: per session, first frame written to the socket
    ackFailed,      \* history: sessions with a failed last_seen_at UPDATE
    stalled,        \* per session: the socket write of the pump never ends
    hbBlocked,      \* heartbeat task: id whose full queue it is waiting on
    unknownSeen,    \* history: sessions that got a frame they could not decode
    wrLast,         \* history: per session, last sequence written to the socket
    hubSignal,      \* process signal delivered: "none", "sigint", "sigterm"
    shutdown_flag,  \* App::run: shutdown_flag shared by the background tasks
    hbTask,         \* heartbeat task: "running", "signalled", "stopped"
    reapTask,       \* cleanup task: "running", "signalled", "stopped"
    hubPhase        \* hub process: "serving" or "exited"

VARIABLES
    clock,          \* agent wall clock, seconds
    apc,            \* position of run() / connect_and_handle
    backoff,        \* run(): backoff, seconds
    reconnect_count,\* run(): reconnect_count
    sleepUntil,     \* end of the running tokio::time::sleep(backoff)
    regDeadline,    \* end of the 30s wait for the registration response
    last_heartbeat, \* WsClient.last_heartbeat
    monitor,        \* heartbeat monitor task: "none", "running", "ended"
    monNext,        \* heartbeat monitor: next check instant
    shutdownReq,    \* value of the shutdown watch channel
    received,       \* history: first heartbeats received in this session
    acked,          \* history: HeartbeatAcks written for them
    attempts,       \* history: start instants of the connect attempts
    immediate,      \* history: every attempt so far failed at once
    closing,        \* history: Close frame "owed" to the hub, "sent", or "none"
    lastFailure,    \* history: why the attempt before the running sleep failed
    protoViolation  \* history: this session read a frame that breaks the protocol

agentVars == <<clock, apc, backoff, reconnect_count, sleepUntil, regDeadline,
               last_heartbeat, monitor, monNext, shutdownReq, received,
               acked, attempts, immediate, closing, lastFailure,
               protoViolation>>

hubVars == <<now, db, connections, sess, queue, rxOpen, sequence_map,
             hbPending, hbNext, reapPending, reapCur, reapNext, enqLast, dbErrors,
             firstOut, ackFailed, stalled, hbBlocked, unknownSeen, wrLast,
             hubSignal, shutdown_flag, hbTask, reapTask, hubPhase>>

VARIABLES
    wireMsg,        \* codec: the message handed to the encoder
    wireText,       \* codec: the JSON text produced
    wireBack        \* codec: what the decoder made of the text

codecVars == <<wireMsg, wireText, wireBack>>

----------------------------------------------------------------------------
(* Agents table *)

NoRow == [ident |-> 0, status |-> "absent", last_seen_at |-> 0,
          terminated_at |-> FALSE]

PresentRows(d) == {r \in RowIds : d[r].status # "absent"}

\* A row that may already be in the database when the hub starts: left by an
\* earlier run, fresh or already stale.
InitRows ==
    {NoRow,
     [ident |-> 1, status |-> "ready", last_seen_at |-> 0,
      terminated_at |-> FALSE],
     [ident |-> 1, status |-> "idle", last_seen_at |-> 0 - StaleSeconds - 1,
      terminated_at |-> FALSE],
     [ident |-> 1, status |-> "terminated",
      last_seen_at |-> 0 - StaleSeconds - 1, terminated_at |-> TRUE]}

----------------------------------------------------------------------------
(* Protocol codec, crates/podpilot-common/src/protocol/messages.rs *)

\* Option<T>: None, or Some(x) as <<x>>.
None == <<>>

Some(x) == <<x>>

\* ProviderType
ProviderTypes == {"VastAI", "Runpod", "Local"}

\* #[serde(rename_all = "lowercase")], VastAI with #[serde(rename = "vastai")]
ProviderWire(p) ==
    CASE p = "VastAI" -> "vastai"
      [] p = "Runpod" -> "runpod"
      [] p = "Local" -> "local"

\* GpuInfo as detect_gpu builds it: memory_gb is a finite number.
GpuInfos ==
    [name : {"RTX 4090"}, memory_gb : {24}, cuda_version : {"12.4"},
     compute_capability : {None, Some("8.9")}]

\* AgentMessage::Register(RegisterRequest { .. })
RegisterMessages ==
    [variant : {"Register"}, correlation_id : CorrIds,
     provider : ProviderTypes,
     provider_instance_id : {None, Some("inst-1")},
     hostname : {"host-1"}, gpu_info : GpuInfos,
     tailscale_ip : {"100.64.0.1"}, agent_version : {"0.1.0"}]

\* AgentMessage::HeartbeatAck(HeartbeatAckMessage { correlation_id, timestamp })
HeartbeatAckMessages ==
    [variant : {"HeartbeatAck"}, correlation_id : CorrIds, timestamp : {0}]

\* HubMessage::RegisterAck(RegisterResponse { .. })
RegisterAckMessages ==
    [variant : {"RegisterAck"}, correlation_id : CorrIds, agent_id : RowIds,
     registered_at : {0}, hub_version : {"0.1.0"}]

\* HubMessage::Heartbeat(HeartbeatMessage { correlation_id, timestamp,
\* sequence })
HeartbeatMessages ==
    [variant : {"Heartbeat"}, correlation_id : CorrIds, timestamp : {0},
     sequence : 1..MaxHeartbeats]

\* HubMessage::Error { message, code, correlation_id }
ErrorMessages ==
    [variant : {"Error"}, message : {"failed"},
     code : {"registration_failed", "unknown_message"},
     correlation_id : {None} \cup {Some(c) : c \in CorrIds}]

AgentMessages == RegisterMessages \cup HeartbeatAckMessages

HubMessages == RegisterAckMessages \cup HeartbeatMessages \cup ErrorMessages

WireMessages == AgentMessages \cup HubMessages

NoMsg == [variant |-> "none"]

\* What serde_json::from_str returns for a text it cannot make a message of.
DecodeError == [variant |-> "DecodeError"]

\* A JSON object is a function from its keys to its values; a Uuid is
\* written as its hyphenated text, a DateTime<Utc> as its RFC 3339 text.
EmptyObject == [k \in {} |-> k]

NoText == [type |-> "none"]

UuidText(u) == <<"uuid", u>>

ParseUuid(x) == x[2]

IsUuidText(x) == Len(x) = 2 /\ x[1] = "uuid"

TimeText(ts) == <<"rfc3339", ts>>

ParseTime(x) == x[2]

IsTimeText(x) == Len(x) = 2 /\ x[1] = "rfc3339"

\* #[serde(tag = "type", rename_all = "snake_case")]
VariantTag(v) ==
    CASE v = "Register" -> "register"
      [] v = "RegisterAck" -> "register_ack"
      [] v = "Error" -> "error"

\* The same attribute applied to the heartbeat variants.
HeartbeatVariantTag(v) ==
    CASE v = "Heartbeat" -> "heartbeat"
      [] v = "HeartbeatAck" -> "heartbeat_ack"

SkippedAlways(k, o) == EmptyObject

\* #[serde(skip_serializing_if = "Option::is_none")]: the key is left out
\* for None and carries the value for Some.
SkipIfNone(k, o) ==
    IF o = None THEN EmptyObject ELSE (k :> o[1])

\* A missing key of an Option field deserializes to None.
OptionOf(j, k) ==
    IF k \in DOMAIN j THEN Some(j[k]) ELSE None

\* Option<Uuid> to and from the text of its value.
UuidTextOpt(o) == IF o = None THEN None ELSE Some(UuidText(o[1]))

ParseUuidOpt(o) == IF o = None THEN None ELSE Some(ParseUuid(o[1]))

EncodeGpuInfo(g) ==
    [name |-> g.name, memory_gb |-> g.memory_gb,
     cuda_version |-> g.cuda_version]
    @@ SkipIfNone("compute_capability", g.compute_capability)

DecodeGpuInfo(j) ==
    [name |-> j.name, memory_gb |-> j.memory_gb,
     cuda_version |-> j.cuda_version,
     compute_capability |-> OptionOf(j, "compute_capability")]

\* serde_json::to_string(&AgentMessage::Register(..))
EncodeRegister(m) ==
    [type |-> VariantTag(m.variant),
     correlation_id |-> UuidText(m.correlation_id),
     provider |-> ProviderWire(m.provider),
     hostname |-> m.hostname,
     gpu_info |-> EncodeGpuInfo(m.gpu_info),
     tailscale_ip |-> m.tailscale_ip,
     agent_version |-> m.agent_version]
    @@ SkipIfNone("provider_instance_id", m.provider_instance_id)

\* serde_json::to_string(&HubMessage::RegisterAck(..))
EncodeRegisterAck(m) ==
    [type |-> VariantTag(m.variant),
     correlation_id |-> UuidText(m.correlation_id),
     agent_id |-> UuidText(m.agent_id),
     registered_at |-> TimeText(m.registered_at),
     hub_version |-> m.hub_version]

\* serde_json::to_string(&HubMessage::Error { .. })
EncodeError(m) ==
    [type |-> VariantTag(m.variant), message |-> m.message, code |-> m.code]
    @@ SkipIfNone("correlation_id", UuidTextOpt(m.correlation_id))

\* The heartbeat variants, by the wire protocol's table.
EncodeHeartbeat(m) ==
    [type |-> HeartbeatVariantTag(m.variant),
     correlation_id |-> UuidText(m.correlation_id),
     timestamp |-> TimeText(m.timestamp),
     sequence |-> m.sequence]

EncodeHeartbeatAck(m) ==
    [type |-> HeartbeatVariantTag(m.variant),
     correlation_id |-> UuidText(m.correlation_id),
     timestamp |-> TimeText(m.timestamp)]

Encode(m) ==
    CASE m.variant = "Register" -> EncodeRegister(m)
      [] m.variant = "RegisterAck" -> EncodeRegisterAck(m)
      [] m.variant = "Error" -> EncodeError(m)
      [] m.variant = "Heartbeat" -> EncodeHeartbeat(m)
      [] m.variant = "HeartbeatAck" -> EncodeHeartbeatAck(m)

HasKeys(j, K) == K \subseteq DOMAIN j

DecodeRegister(j) ==
    IF /\ HasKeys(j, {"correlation_id", "provider", "hostname", "gpu_info",
                      "tailscale_ip", "agent_version"})
       /\ IsUuidText(j.correlation_id)
       /\ \E p \in ProviderTypes : ProviderWire(p) = j.provider
       /\ HasKeys(j.gpu_info, {"name", "memory_gb", "cuda_version"})
    THEN [variant |-> "Register",
          correlation_id |-> ParseUuid(j.correlation_id),
          provider |-> CHOOSE p \in ProviderTypes :
                           ProviderWire(p) = j.provider,
          provider_instance_id |-> OptionOf(j, "provider_instance_id"),
          hostname |-> j.hostname,
          gpu_info |-> DecodeGpuInfo(j.gpu_info),
          tailscale_ip |-> j.tailscale_ip,
          agent_version |-> j.agent_version]
    ELSE DecodeError

DecodeRegisterAck(j) ==
    IF /\ HasKeys(j, {"correlation_id", "agent_id", "registered_at",
                      "hub_version"})
       /\ IsUuidText(j.correlation_id)
       /\ IsUuidText(j.agent_id)
       /\ IsTimeText(j.registered_at)
    THEN [variant |-> "RegisterAck",
          correlation_id |-> ParseUuid(j.correlation_id),
          agent_id |-> ParseUuid(j.agent_id),
          registered_at |-> ParseTime(j.registered_at),
          hub_version |-> j.hub_version]
    ELSE DecodeError

DecodeErrorEnvelope(j) ==
    IF /\ HasKeys(j, {"message", "code"})
       /\ "correlation_id" \in DOMAIN j => IsUuidText(j.correlation_id)
    THEN [variant |-> "Error", message |-> j.message, code |-> j.code,
          correlation_id |-> ParseUuidOpt(OptionOf(j, "correlation_id"))]
    ELSE DecodeError

DecodeHeartbeat(j) ==
    IF /\ HasKeys(j, {"correlation_id", "timestamp", "sequence"})
       /\ IsUuidText(j.correlation_id)
       /\ IsTimeText(j.timestamp)
    THEN [variant |-> "Heartbeat",
          correlation_id |-> ParseUuid(j.correlation_id),
          timestamp |-> ParseTime(j.timestamp),
          sequence |-> j.sequence]
    ELSE DecodeError

DecodeHeartbeatAck(j) ==
    IF /\ HasKeys(j, {"correlation_id", "timestamp"})
       /\ IsUuidText(j.correlation_id)
       /\ IsTimeText(j.timestamp)
    THEN [variant |-> "HeartbeatAck",
          correlation_id |-> ParseUuid(j.correlation_id),
          timestamp |-> ParseTime(j.timestamp)]
    ELSE DecodeError

\* serde_json::from_str::<AgentMessage>(text): the variant is chosen by the
\* "type" key; a tag that names no variant is an error.
DecodeAgentMessage(j) ==
    IF "type" \notin DOMAIN j THEN DecodeError
    ELSE IF j.type = VariantTag("Register") THEN DecodeRegister(j)
    ELSE IF j.type = HeartbeatVariantTag("HeartbeatAck")
         THEN DecodeHeartbeatAck(j)
    ELSE DecodeError

\* serde_json::from_str::<HubMessage>(text)
DecodeHubMessage(j) ==
    IF "type" \notin DOMAIN j THEN DecodeError
    ELSE IF j.type = VariantTag("RegisterAck") THEN DecodeRegisterAck(j)
    ELSE IF j.type = VariantTag("Error") THEN DecodeErrorEnvelope(j)
    ELSE IF j.type = HeartbeatVariantTag("Heartbeat")
         THEN DecodeHeartbeat(j)
    ELSE DecodeError

\* The sender serializes wireMsg.
CodecEncode ==
    /\ wireMsg # NoMsg
    /\ wireText = NoText
    /\ wireText' = Encode(wireMsg)
    /\ UNCHANGED <<wireMsg, wireBack>>
    /\ UNCHANGED <<hubVars, agentVars>>

\* The receiving side parses the text: the hub as AgentMessage, the agent as
\* HubMessage.
CodecDecode ==
    /\ wireText # NoText
    /\ wireBack = NoMsg
    /\ wireBack' = IF wireMsg \in AgentMessages
                   THEN DecodeAgentMessage(wireText)
                   ELSE DecodeHubMessage(wireText)
    /\ UNCHANGED <<wireMsg, wireText>>
    /\ UNCHANGED <<hubVars, agentVars>>

\* No message is under way.
CodecIdle ==
    /\ wireMsg = NoMsg
    /\ wireText = NoText
    /\ wireBack = NoMsg

CodecInit ==
    /\ wireMsg \in WireMessages
    /\ wireText = NoText
    /\ wireBack = NoMsg

----------------------------------------------------------------------------
(* Connection registry, state.rs *)

RegisteredIds(conns) == {e[1] : e \in conns}

EntriesOf(conns, a) == {e \in conns : e[1] = a}

register_connection_keep_old(conns, a, s) == conns \cup {<<a, s>>}

\* DashMap::insert: the value stored under the key is replaced.
register_connection(conns, a, s) ==
    (conns \ EntriesOf(conns, a)) \cup {<<a, s>>}

remove_connection_noop(conns, a) == conns

\* DashMap::remove: whatever is stored under the key goes.
remove_connection(conns, a) == conns \ EntriesOf(conns, a)

connected_agents(conns) == RegisteredIds(conns)

connection_count(conns) == Cardinality(conns)

\* send_to_agent keeps the Ref returned by connections.get(agent_id) while it
\* awaits sender.send(message): insert and remove of that key wait for it.
EntryLocked(a) == hbBlocked # NoAgent /\ hbBlocked = a

----------------------------------------------------------------------------
(* Session handler, ws/handler.rs *)

NoSess == [pc |-> "none", ident |-> 0, existing |-> NoAgent,
           agent_id |-> NoAgent, deadline |-> 0, first |-> "none",
           corr |-> 0]

\* A handler that has returned keeps nothing.
ClosedSess == [NoSess EXCEPT !.pc = "closed"]

\* What wait_for_registration can get from receiver.next() under its timeout.
FirstFrames ==
    {"register", "heartbeat_ack", "non_text", "unparsable", "stream_end",
     "read_error", "timeout"}

IsRegisterOrAck(f) == f \in {"register", "heartbeat_ack"}

\* wait_for_registration goes on to create_agent_record only for a text
\* frame that parses as AgentMessage::Register.
IsRegister(f) == f = "register"

NoFrame == [type |-> "none", correlation_id |-> 0, agent_id |-> NoAgent]

RegisterAckOtherCorr(c, a) ==
    [type |-> "register_ack", correlation_id |-> (c % MaxCorr) + 1,
     agent_id |-> a]

\* HubMessage::RegisterAck(AgentRegistration { correlation_id:
\* req.correlation_id, agent_id, .. })
RegisterAckFor(c, a) ==
    [type |-> "register_ack", correlation_id |-> c, agent_id |-> a]

HeartbeatFrame == [type |-> "heartbeat", correlation_id |-> 0,
                   agent_id |-> NoAgent]

\* Correlation ids are interchangeable: a Register brings one in use or the
\* next unused one.
KnownCorrs ==
    {sess[s].corr : s \in Sessions} \cup
    {firstOut[s].correlation_id : s \in Sessions}

\* Identities are interchangeable: a connection brings a known identity or
\* the next unused one.
KnownIdentities ==
    {db[r].ident : r \in PresentRows(db)} \cup
    {sess[s].ident : s \in {x \in Sessions : sess[x].pc # "none"}}

\* axum accepts a websocket upgrade and spawns handle_agent_socket.
Accept(s, i) ==
    /\ hubPhase = "serving"
    /\ hubSignal = "none"
    /\ sess[s].pc = "none"
    /\ \A s2 \in Sessions : s2 < s => sess[s2].pc # "none"
    /\ \A j \in Identities : j < i => j \in KnownIdentities
    /\ sess' = [sess EXCEPT ![s] =
                  [NoSess EXCEPT !.pc = "wait_reg",
                                 !.ident = i,
                                 !.deadline = now + HubRegistrationTimeout]]
    /\ UNCHANGED <<now, db, connections, queue, rxOpen, sequence_map,
                   hbPending, hbNext, reapPending, reapCur, reapNext,
                   enqLast, dbErrors,
                   firstOut, ackFailed, stalled, hbBlocked>>
    /\ UNCHANGED <<unknownSeen, wrLast, hubSignal, shutdown_flag, hbTask,
                   reapTask, hubPhase>>
    /\ UNCHANGED <<agentVars, codecVars>>

\* wait_for_registration fails: timeout, stream end, read error, non-text
\* frame, parse error or a HeartbeatAck as first frame; the socket is closed.
RejectFirstFrame(s, f) ==
    /\ hubPhase = "serving"
    /\ sess[s].pc = "wait_reg"
    /\ ~IsRegister(f)
    /\ (f = "timeout") <=> (now >= sess[s].deadline)
    /\ sess' = [sess EXCEPT ![s] = ClosedSess]
    /\ UNCHANGED <<now, db, connections, queue, rxOpen, sequence_map,
                   hbPending, hbNext, reapPending, reapCur, reapNext,
                   enqLast, dbErrors,
                   firstOut, ackFailed, stalled, hbBlocked>>
    /\ UNCHANGED <<unknownSeen, wrLast, hubSignal, shutdown_flag, hbTask,
                   reapTask, hubPhase>>
    /\ UNCHANGED <<agentVars, codecVars>>

MatchingRowsIgnoringTermination(d, i) ==
    {r \in PresentRows(d) : d[r].ident = i}

\* SELECT id FROM agents WHERE tailscale_ip = $1
\*   AND provider_instance_id = $2 AND terminated_at IS NULL
MatchingRows(d, i) ==
    {r \in PresentRows(d) : d[r].ident = i /\ ~d[r].terminated_at}

\* The first frame f, carrying correlation id c, arrives in time and is
\* taken for a Register; create_agent_record, first statement: SELECT id ...
\* fetch_optional.
LookupExisting(s, f, c) ==
    /\ hubPhase = "serving"
    /\ sess[s].pc = "wait_reg"
    /\ f # "timeout"
    /\ now < sess[s].deadline
    /\ IsRegister(f)
    /\ \A j \in CorrIds : j < c => j \in KnownCorrs
    /\ LET m == MatchingRows(db, sess[s].ident)
       IN  \E r \in (IF m = {} THEN {NoAgent} ELSE m) :
              sess' = [sess EXCEPT ![s].pc = "resolved", ![s].existing = r,
                                   ![s].deadline = 0, ![s].first = f,
                                   ![s].corr = c]
    /\ UNCHANGED <<now, db, connections, queue, rxOpen, sequence_map,
                   hbPending, hbNext, reapPending, reapCur, reapNext,
                   enqLast, dbErrors,
                   firstOut, ackFailed, stalled, hbBlocked>>
    /\ UNCHANGED <<unknownSeen, wrLast, hubSignal, shutdown_flag, hbTask,
                   reapTask, hubPhase>>
    /\ UNCHANGED <<agentVars, codecVars>>

FreeRows(d) == RowIds \ PresentRows(d)

ReuseRecordKeepSeen(d, a, t) == [d EXCEPT ![a].status = "registering"]

\* UPDATE agents SET status = 'registering', hostname = $2, gpu_info = $3,
\*   last_seen_at = NOW() WHERE id = $1
ReuseRecord(d, a, t) ==
    [d EXCEPT ![a].status = "registering", ![a].last_seen_at = t]

\* INSERT INTO agents (...) VALUES (..., 'registering', ..., NOW(), NOW())
InsertRecord(d, r, i, t) ==
    [d EXCEPT ![r] = [ident |-> i, status |-> "registering",
                      last_seen_at |-> t, terminated_at |-> FALSE]]

\* create_agent_record, second statement: UPDATE the found row or INSERT.
WriteRecord(s) ==
    /\ hubPhase = "serving"
    /\ sess[s].pc = "resolved"
    /\ IF sess[s].existing # NoAgent
       THEN /\ db' = ReuseRecord(db, sess[s].existing, now)
            /\ sess' = [sess EXCEPT ![s].pc = "recorded",
                                    ![s].existing = NoAgent,
                                    ![s].agent_id = sess[s].existing]
       ELSE /\ FreeRows(db) # {}
            /\ LET r == CHOOSE x \in FreeRows(db) :
                            \A y \in FreeRows(db) : x <= y
               IN  /\ db' = InsertRecord(db, r, sess[s].ident, now)
                   /\ sess' = [sess EXCEPT ![s].pc = "recorded",
                                           ![s].agent_id = r]
    /\ UNCHANGED <<now, connections, queue, rxOpen, sequence_map,
                   hbPending, hbNext, reapPending, reapCur, reapNext,
                   enqLast, dbErrors,
                   firstOut, ackFailed, stalled, hbBlocked>>
    /\ UNCHANGED <<unknownSeen, wrLast, hubSignal, shutdown_flag, hbTask,
                   reapTask, hubPhase>>
    /\ UNCHANGED <<agentVars, codecVars>>

\* create_agent_record: the SELECT fails on the Register of session s;
\* wait_for_registration returns the error, handle_agent_socket logs it,
\* closes the socket and returns.
LookupFails(s) ==
    /\ hubPhase = "serving"
    /\ sess[s].pc = "wait_reg"
    /\ now < sess[s].deadline
    /\ sess' = [sess EXCEPT ![s] = ClosedSess]
    /\ UNCHANGED <<now, db, connections, queue, rxOpen, sequence_map,
                   hbPending, hbNext, reapPending, reapCur, reapNext,
                   enqLast, dbErrors,
                   firstOut, ackFailed, stalled, hbBlocked>>
    /\ UNCHANGED <<unknownSeen, wrLast, hubSignal, shutdown_flag, hbTask,
                   reapTask, hubPhase>>
    /\ UNCHANGED <<agentVars, codecVars>>

\* create_agent_record: the UPDATE or the INSERT fails; same way out.
WriteRecordFails(s) ==
    /\ hubPhase = "serving"
    /\ sess[s].pc = "resolved"
    /\ sess' = [sess EXCEPT ![s] = ClosedSess]
    /\ UNCHANGED <<now, db, connections, queue, rxOpen, sequence_map,
                   hbPending, hbNext, reapPending, reapCur, reapNext,
                   enqLast, dbErrors,
                   firstOut, ackFailed, stalled, hbBlocked>>
    /\ UNCHANGED <<unknownSeen, wrLast, hubSignal, shutdown_flag, hbTask,
                   reapTask, hubPhase>>
    /\ UNCHANGED <<agentVars, codecVars>>

\* The RegisterAck could not be written: wait_for_registration returns Err.
AckSendFails(s) ==
    /\ hubPhase = "serving"
    /\ sess[s].pc = "recorded"
    /\ sess' = [sess EXCEPT ![s] = ClosedSess]
    /\ UNCHANGED <<now, db, connections, queue, rxOpen, sequence_map,
                   hbPending, hbNext, reapPending, reapCur, reapNext,
                   enqLast, dbErrors,
                   firstOut, ackFailed, stalled, hbBlocked>>
    /\ UNCHANGED <<unknownSeen, wrLast, hubSignal, shutdown_flag, hbTask,
                   reapTask, hubPhase>>
    /\ UNCHANGED <<agentVars, codecVars>>

\* The RegisterAck is written to the socket; wait_for_registration returns
\* Ok(agent_id).
SendRegisterAck(s) ==
    /\ hubPhase = "serving"
    /\ sess[s].pc = "recorded"
    /\ sess' = [sess EXCEPT ![s].pc = "acked"]
    /\ firstOut' = [firstOut EXCEPT ![s] =
                      IF @ = NoFrame
                      THEN RegisterAckFor(sess[s].corr, sess[s].agent_id)
                      ELSE @]
    /\ UNCHANGED <<now, db, connections, queue, rxOpen, sequence_map,
                   hbPending, hbNext, reapPending, reapCur, reapNext,
                   enqLast, dbErrors, ackFailed, stalled, hbBlocked>>
    /\ UNCHANGED <<unknownSeen, wrLast, hubSignal, shutdown_flag, hbTask,
                   reapTask, hubPhase>>
    /\ UNCHANGED <<agentVars, codecVars>>

\* Of the first frame only the type is kept once the handshake is over.
TypeOnly(f) == [NoFrame EXCEPT !.type = f.type]

\* Channel created; register_connection; outbound task spawned.
RegisterSession(s) ==
    /\ hubPhase = "serving"
    /\ sess[s].pc = "acked"
    /\ ~EntryLocked(sess[s].agent_id)
    /\ connections' = register_connection(connections, sess[s].agent_id, s)
    /\ sess' = [sess EXCEPT ![s].pc = "registered", ![s].corr = 0]
    /\ firstOut' = [firstOut EXCEPT ![s] = TypeOnly(@)]
    /\ queue' = [queue EXCEPT ![s] = <<>>]
    /\ rxOpen' = [rxOpen EXCEPT ![s] = TRUE]
    /\ UNCHANGED <<now, db, sequence_map, hbPending, hbNext, reapPending,
                   reapCur, reapNext, enqLast, dbErrors,
                   ackFailed, stalled, hbBlocked>>
    /\ UNCHANGED <<unknownSeen, wrLast, hubSignal, shutdown_flag, hbTask,
                   reapTask, hubPhase>>
    /\ UNCHANGED <<agentVars, codecVars>>

TouchLastSeenAll(d, a, t) ==
    [r \in RowIds |-> IF r \in PresentRows(d)
                      THEN [d[r] EXCEPT !.last_seen_at = t] ELSE d[r]]

\* UPDATE agents SET last_seen_at = NOW() WHERE id = $1
TouchLastSeen(d, a, t) == [d EXCEPT ![a].last_seen_at = t]

\* handle_agent_message, HeartbeatAck: UPDATE agents SET last_seen_at = NOW().
HandleHeartbeatAck(s) ==
    /\ hubPhase = "serving"
    /\ sess[s].pc = "registered"
    /\ db[sess[s].agent_id].last_seen_at # now
    /\ db' = TouchLastSeen(db, sess[s].agent_id, now)
    /\ UNCHANGED <<now, connections, sess, queue, rxOpen, sequence_map,
                   hbPending, hbNext, reapPending, reapCur, reapNext,
                   enqLast, dbErrors,
                   firstOut, ackFailed, stalled, hbBlocked>>
    /\ UNCHANGED <<unknownSeen, wrLast, hubSignal, shutdown_flag, hbTask,
                   reapTask, hubPhase>>
    /\ UNCHANGED <<agentVars, codecVars>>

HeartbeatAckUpdateFailsEnds(s) ==
    /\ hubPhase = "serving"
    /\ sess[s].pc = "registered"
    /\ s \notin ackFailed
    /\ ackFailed' = ackFailed \cup {s}
    /\ connections' = remove_connection(connections, sess[s].agent_id)
    /\ sess' = [sess EXCEPT ![s] = ClosedSess]
    /\ rxOpen' = [rxOpen EXCEPT ![s] = FALSE]
    /\ UNCHANGED <<now, db, queue, sequence_map, hbPending, hbNext,
                   reapPending, reapCur, reapNext, enqLast, dbErrors,
                   firstOut, stalled, hbBlocked>>
    /\ UNCHANGED <<unknownSeen, wrLast, hubSignal, shutdown_flag, hbTask,
                   reapTask, hubPhase>>
    /\ UNCHANGED <<agentVars, codecVars>>

\* handle_agent_message, HeartbeatAck: the UPDATE fails; handle_agent_socket
\* logs "Error handling message" and reads on.
HeartbeatAckUpdateFails(s) ==
    /\ hubPhase = "serving"
    /\ sess[s].pc = "registered"
    /\ s \notin ackFailed
    /\ db[sess[s].agent_id].last_seen_at # now
    /\ dbErrors + Cardinality(ackFailed) < MaxDbErrors
    /\ ackFailed' = ackFailed \cup {s}
    /\ UNCHANGED <<now, db, connections, sess, queue, rxOpen, sequence_map,
                   hbPending, hbNext, reapPending, reapCur, reapNext,
                   enqLast, dbErrors, firstOut, stalled, hbBlocked>>
    /\ UNCHANGED <<unknownSeen, wrLast, hubSignal, shutdown_flag, hbTask,
                   reapTask, hubPhase>>
    /\ UNCHANGED <<agentVars, codecVars>>

\* handle_agent_message: serde_json::from_str fails on a text frame (unknown
\* type tag or malformed JSON); handle_agent_socket logs "Error handling
\* message" and reads on.
HandleUndecodable(s) ==
    /\ hubPhase = "serving"
    /\ sess[s].pc = "registered"
    /\ s \notin unknownSeen
    /\ unknownSeen' = unknownSeen \cup {s}
    /\ UNCHANGED <<now, db, connections, sess, queue, rxOpen, sequence_map,
                   hbPending, hbNext, reapPending, reapCur, reapNext,
                   enqLast, dbErrors, firstOut, ackFailed, stalled,
                   hbBlocked>>
    /\ UNCHANGED <<wrLast, hubSignal, shutdown_flag, hbTask, reapTask,
                   hubPhase>>
    /\ UNCHANGED <<agentVars, codecVars>>

\* Inbound loop ends (close frame, read error, stream end): cleanup.
SessionEnds(s) ==
    /\ hubPhase = "serving"
    /\ sess[s].pc = "registered"
    /\ ~EntryLocked(sess[s].agent_id)
    /\ connections' = remove_connection(connections, sess[s].agent_id)
    /\ sess' = [sess EXCEPT ![s] = ClosedSess]
    /\ queue' = [queue EXCEPT ![s] = <<>>]
    /\ rxOpen' = [rxOpen EXCEPT ![s] = FALSE]
    /\ enqLast' = [enqLast EXCEPT ![s] = 0]
    /\ firstOut' = [firstOut EXCEPT ![s] = NoFrame]
    /\ stalled' = [stalled EXCEPT ![s] = FALSE]
    /\ ackFailed' = ackFailed \ {s}
    /\ UNCHANGED <<now, db, sequence_map, hbPending, hbNext, reapPending,
                   reapCur, reapNext, dbErrors, hbBlocked>>
    /\ wrLast' = [wrLast EXCEPT ![s] = 0]
    /\ unknownSeen' = unknownSeen \ {s}
    /\ UNCHANGED <<hubSignal, shutdown_flag, hbTask, reapTask, hubPhase>>
    /\ UNCHANGED <<agentVars, codecVars>>

PumpWriteNewest(s) ==
    /\ hubPhase = "serving"
    /\ rxOpen[s]
    /\ ~stalled[s]
    /\ queue[s] # <<>>
    /\ queue' = [queue EXCEPT ![s] = SubSeq(queue[s], 1, Len(queue[s]) - 1)]
    /\ firstOut' = [firstOut EXCEPT ![s] =
                      IF @ = NoFrame THEN HeartbeatFrame ELSE @]
    /\ wrLast' = [wrLast EXCEPT ![s] = queue[s][Len(queue[s])]]
    /\ UNCHANGED <<now, db, connections, sess, rxOpen, sequence_map,
                   hbPending, hbNext, reapPending, reapCur, reapNext,
                   enqLast, dbErrors, ackFailed, stalled, hbBlocked>>
    /\ UNCHANGED <<unknownSeen, hubSignal, shutdown_flag, hbTask, reapTask,
                   hubPhase>>
    /\ UNCHANGED <<agentVars, codecVars>>

\* Outbound task: recv, serialize, write to the socket.
PumpWrite(s) ==
    /\ hubPhase = "serving"
    /\ rxOpen[s]
    /\ ~stalled[s]
    /\ queue[s] # <<>>
    /\ queue' = [queue EXCEPT ![s] = Tail(queue[s])]
    /\ firstOut' = [firstOut EXCEPT ![s] =
                      IF @ = NoFrame THEN HeartbeatFrame ELSE @]
    /\ UNCHANGED <<now, db, connections, sess, rxOpen, sequence_map,
                   hbPending, hbNext, reapPending, reapCur, reapNext,
                   enqLast, dbErrors, ackFailed, stalled, hbBlocked>>
    /\ wrLast' = [wrLast EXCEPT ![s] = Head(queue[s])]
    /\ UNCHANGED <<unknownSeen, hubSignal, shutdown_flag, hbTask, reapTask, hubPhase>>
    /\ UNCHANGED <<agentVars, codecVars>>

\* The same with an agent that acks at once: the heartbeat is written
\* (handler.rs:59), the agent answers with its HeartbeatAck (client.rs:283-296)
\* and handle_agent_message runs its UPDATE (handler.rs:160-175), all within
\* the same second.
PumpWriteAndAck(s) ==
    /\ hubPhase = "serving"
    /\ sess[s].pc = "registered"
    /\ rxOpen[s]
    /\ ~stalled[s]
    /\ queue[s] # <<>>
    /\ queue' = [queue EXCEPT ![s] = Tail(queue[s])]
    /\ firstOut' = [firstOut EXCEPT ![s] =
                      IF @ = NoFrame THEN HeartbeatFrame ELSE @]
    /\ db' = TouchLastSeen(db, sess[s].agent_id, now)
    /\ UNCHANGED <<now, connections, sess, rxOpen, sequence_map,
                   hbPending, hbNext, reapPending, reapCur, reapNext,
                   enqLast, dbErrors, ackFailed, stalled, hbBlocked>>
    /\ wrLast' = [wrLast EXCEPT ![s] = Head(queue[s])]
    /\ UNCHANGED <<unknownSeen, hubSignal, shutdown_flag, hbTask, reapTask, hubPhase>>
    /\ UNCHANGED <<agentVars, codecVars>>

\* Outbound task: serde_json::to_string fails; the message is logged and
\* skipped (continue).
PumpSerializeFails(s) ==
    /\ hubPhase = "serving"
    /\ rxOpen[s]
    /\ ~stalled[s]
    /\ queue[s] # <<>>
    /\ queue' = [queue EXCEPT ![s] = Tail(queue[s])]
    /\ UNCHANGED <<now, db, connections, sess, rxOpen, sequence_map,
                   hbPending, hbNext, reapPending, reapCur, reapNext,
                   enqLast, dbErrors, firstOut, ackFailed, stalled,
                   hbBlocked>>
    /\ UNCHANGED <<unknownSeen, wrLast, hubSignal, shutdown_flag, hbTask,
                   reapTask, hubPhase>>
    /\ UNCHANGED <<agentVars, codecVars>>

\* Outbound task: the socket write fails, the task breaks and drops
\* outbound_rx; the inbound loop keeps running.
PumpWriteError(s) ==
    /\ hubPhase = "serving"
    /\ rxOpen[s]
    /\ queue[s] # <<>> \/ stalled[s]
    /\ queue' = [queue EXCEPT ![s] = <<>>]
    /\ rxOpen' = [rxOpen EXCEPT ![s] = FALSE]
    /\ stalled' = [stalled EXCEPT ![s] = FALSE]
    /\ UNCHANGED <<now, db, connections, sess, sequence_map,
                   hbPending, hbNext, reapPending, reapCur, reapNext,
                   enqLast, dbErrors, firstOut, ackFailed, hbBlocked>>
    /\ UNCHANGED <<unknownSeen, wrLast, hubSignal, shutdown_flag, hbTask,
                   reapTask, hubPhase>>
    /\ UNCHANGED <<agentVars, codecVars>>

\* The agent stops reading its socket: from now on the outbound task's
\* ws_sender_task.send(..).await does not complete.
SocketStalls(s) ==
    /\ hubPhase = "serving"
    /\ sess[s].pc = "registered"
    /\ rxOpen[s]
    /\ ~stalled[s]
    /\ stalled' = [stalled EXCEPT ![s] = TRUE]
    /\ UNCHANGED <<now, db, connections, sess, queue, rxOpen, sequence_map,
                   hbPending, hbNext, reapPending, reapCur, reapNext,
                   enqLast, dbErrors, firstOut, ackFailed, hbBlocked>>
    /\ UNCHANGED <<unknownSeen, wrLast, hubSignal, shutdown_flag, hbTask,
                   reapTask, hubPhase>>
    /\ UNCHANGED <<agentVars, codecVars>>

\* The agent reads its socket again: the pending write completes.
SocketResumes(s) ==
    /\ hubPhase = "serving"
    /\ stalled[s]
    /\ stalled' = [stalled EXCEPT ![s] = FALSE]
    /\ UNCHANGED <<now, db, connections, sess, queue, rxOpen, sequence_map,
                   hbPending, hbNext, reapPending, reapCur, reapNext,
                   enqLast, dbErrors, firstOut, ackFailed, hbBlocked>>
    /\ UNCHANGED <<unknownSeen, wrLast, hubSignal, shutdown_flag, hbTask,
                   reapTask, hubPhase>>
    /\ UNCHANGED <<agentVars, codecVars>>

----------------------------------------------------------------------------
(* Heartbeat fanout, ws/heartbeat.rs *)

MapPut(m, k, v) == [x \in (DOMAIN m) \cup {k} |-> IF x = k THEN v ELSE m[x]]

MapRemove(m, k) == [x \in (DOMAIN m) \ {k} |-> m[x]]

NextSequenceSkipping(m, a) == IF a \in DOMAIN m THEN m[a] + 2 ELSE 1

\* let sequence = sequence_map.entry(agent_id).or_insert(0); *sequence += 1;
NextSequence(m, a) == IF a \in DOMAIN m THEN m[a] + 1 ELSE 1

\* tick_interval.tick() fires: send_heartbeats takes its snapshot of the ids.
HbTick ==
    /\ hubPhase = "serving"
    /\ hbTask # "stopped"
    /\ hbPending = {}
    /\ now >= hbNext
    /\ hbNext' = hbNext + HeartbeatInterval
    /\ hbPending' = connected_agents(connections)
    /\ UNCHANGED <<now, db, connections, sess, queue, rxOpen, sequence_map,
                   reapPending, reapCur, reapNext, enqLast,
                   dbErrors,
                   firstOut, ackFailed, stalled, hbBlocked>>
    /\ hbTask' = IF connected_agents(connections) = {} /\ shutdown_flag
                 THEN "stopped" ELSE "running"
    /\ UNCHANGED <<unknownSeen, wrLast, hubSignal, shutdown_flag, reapTask, hubPhase>>
    /\ UNCHANGED <<agentVars, codecVars>>

\* sender.send(message).await waits while the channel is full and its
\* receiver is alive.
SendWouldBlock(a) ==
    \E e \in EntriesOf(connections, a) :
        rxOpen[e[2]] /\ Len(queue[e[2]]) >= QueueCapacity

\* send_heartbeats reaches an id whose channel is full: send_to_agent waits
\* in sender.send(message).await, holding the registry entry.
HbBlocks(a) ==
    /\ hubPhase = "serving"
    /\ a \in hbPending
    /\ hbBlocked = NoAgent
    /\ SendWouldBlock(a)
    /\ hbBlocked' = a
    /\ UNCHANGED <<now, db, connections, sess, queue, rxOpen, sequence_map,
                   hbPending, hbNext, reapPending, reapCur, reapNext,
                   enqLast, dbErrors, firstOut, ackFailed, stalled>>
    /\ UNCHANGED <<unknownSeen, wrLast, hubSignal, shutdown_flag, hbTask,
                   reapTask, hubPhase>>
    /\ UNCHANGED <<agentVars, codecVars>>

HbSendEvicts(a) ==
    /\ hubPhase = "serving"
    /\ a \in hbPending
    /\ hbBlocked \in {NoAgent, a}
    /\ hbBlocked' = NoAgent
    /\ hbPending' = hbPending \ {a}
    /\ LET seq == NextSequence(sequence_map, a)
           m1 == MapPut(sequence_map, a, seq)
           ents == EntriesOf(connections, a)
       IN  IF ents = {}
           THEN \* "Agent {} not connected"
                /\ sequence_map' = MapRemove(m1, a)
                /\ UNCHANGED <<queue, enqLast>>
           ELSE \E e \in ents :
                  IF rxOpen[e[2]]
                  THEN /\ Len(queue[e[2]]) < QueueCapacity
                       /\ queue' = [queue EXCEPT ![e[2]] = Append(@, seq)]
                       /\ enqLast' = [enqLast EXCEPT ![e[2]] = seq]
                       /\ sequence_map' = m1
                  ELSE \* receiver dropped: "Failed to send message"
                       /\ sequence_map' = MapRemove(m1, a)
                       /\ UNCHANGED <<queue, enqLast>>
    /\ connections' = IF \E e \in EntriesOf(connections, a) : ~rxOpen[e[2]]
                      THEN remove_connection(connections, a)
                      ELSE connections
    /\ UNCHANGED <<now, db, sess, rxOpen, hbNext, reapPending,
                   reapCur, reapNext, dbErrors, firstOut, ackFailed, stalled>>
    /\ hbTask' = IF hbPending \ {a} = {} /\ shutdown_flag
                 THEN "stopped" ELSE hbTask
    /\ UNCHANGED <<unknownSeen, wrLast, hubSignal, shutdown_flag, reapTask, hubPhase>>
    /\ UNCHANGED <<agentVars, codecVars>>

\* One iteration of the for loop of send_heartbeats, with send_to_agent.
HbSend(a) ==
    /\ hubPhase = "serving"
    /\ a \in hbPending
    /\ hbBlocked \in {NoAgent, a}
    /\ hbBlocked' = NoAgent
    /\ hbPending' = hbPending \ {a}
    /\ LET seq == NextSequence(sequence_map, a)
           m1 == MapPut(sequence_map, a, seq)
           ents == EntriesOf(connections, a)
       IN  IF ents = {}
           THEN \* "Agent {} not connected"
                /\ sequence_map' = MapRemove(m1, a)
                /\ UNCHANGED <<queue, enqLast>>
           ELSE \E e \in ents :
                  IF rxOpen[e[2]]
                  THEN /\ Len(queue[e[2]]) < QueueCapacity
                       /\ queue' = [queue EXCEPT ![e[2]] = Append(@, seq)]
                       /\ enqLast' = [enqLast EXCEPT ![e[2]] = seq]
                       /\ sequence_map' = m1
                  ELSE \* receiver dropped: "Failed to send message"
                       /\ sequence_map' = MapRemove(m1, a)
                       /\ UNCHANGED <<queue, enqLast>>
    /\ UNCHANGED <<now, db, connections, sess, rxOpen, hbNext, reapPending,
                   reapCur, reapNext, dbErrors, firstOut, ackFailed, stalled>>
    /\ hbTask' = IF hbPending \ {a} = {} /\ shutdown_flag
                 THEN "stopped" ELSE hbTask
    /\ UNCHANGED <<unknownSeen, wrLast, hubSignal, shutdown_flag, reapTask, hubPhase>>
    /\ UNCHANGED <<agentVars, codecVars>>

----------------------------------------------------------------------------
(* Stale-agent cleanup, ws/cleanup.rs *)

StaleAgentsReadyOnly(d, t) ==
    {r \in PresentRows(d) :
        /\ d[r].status = "ready"
        /\ d[r].last_seen_at < t - StaleSeconds}

\* SELECT id FROM agents WHERE status IN ('ready','running','idle')
\*   AND last_seen_at < NOW() - INTERVAL '30 seconds'
StaleAgents(d, t) ==
    {r \in PresentRows(d) :
        /\ d[r].status \in ActiveStatuses
        /\ d[r].last_seen_at < t - StaleSeconds}

\* tick_interval.tick() fires: cleanup_stale_agents runs its query.
ReaperTick ==
    /\ hubPhase = "serving"
    /\ reapTask # "stopped"
    /\ reapPending = {}
    /\ reapCur = NoAgent
    /\ now >= reapNext
    /\ reapNext' = reapNext + CleanupInterval
    /\ reapPending' = StaleAgents(db, now)
    /\ UNCHANGED <<now, db, connections, sess, queue, rxOpen, sequence_map,
                   hbPending, hbNext, reapCur, enqLast, dbErrors,
                   firstOut, ackFailed, stalled, hbBlocked>>
    /\ reapTask' = IF StaleAgents(db, now) = {} /\ shutdown_flag
                   THEN "stopped" ELSE "running"
    /\ UNCHANGED <<unknownSeen, wrLast, hubSignal, shutdown_flag, hbTask, hubPhase>>
    /\ UNCHANGED <<agentVars, codecVars>>

\* UPDATE agents SET status = 'error' WHERE id = $1
MarkError(d, a) == [d EXCEPT ![a].status = "error"]

\* The UPDATE of one selected id succeeds.
ReaperUpdate(a) ==
    /\ hubPhase = "serving"
    /\ reapCur = NoAgent
    /\ a \in reapPending
    /\ reapPending' = reapPending \ {a}
    /\ reapCur' = a
    /\ db' = MarkError(db, a)
    /\ UNCHANGED <<now, connections, sess, queue, rxOpen, sequence_map,
                   hbPending, hbNext, reapNext, enqLast,
                   dbErrors,
                   firstOut, ackFailed, stalled, hbBlocked>>
    /\ UNCHANGED <<unknownSeen, wrLast, hubSignal, shutdown_flag, hbTask,
                   reapTask, hubPhase>>
    /\ UNCHANGED <<agentVars, codecVars>>

ReaperUpdateFailsEvicts(a) ==
    /\ hubPhase = "serving"
    /\ reapCur = NoAgent
    /\ a \in reapPending
    /\ dbErrors + Cardinality(ackFailed) < MaxDbErrors
    /\ dbErrors' = dbErrors + 1
    /\ reapPending' = reapPending \ {a}
    /\ reapCur' = a
    /\ UNCHANGED <<now, db, connections, sess, queue, rxOpen, sequence_map,
                   hbPending, hbNext, reapNext, enqLast,
                   firstOut, ackFailed, stalled, hbBlocked>>
    /\ UNCHANGED <<unknownSeen, wrLast, hubSignal, shutdown_flag, hbTask,
                   reapTask, hubPhase>>
    /\ UNCHANGED <<agentVars, codecVars>>

\* The UPDATE of one selected id fails: logged, continue with the next id.
ReaperUpdateFails(a) ==
    /\ hubPhase = "serving"
    /\ reapCur = NoAgent
    /\ a \in reapPending
    /\ dbErrors + Cardinality(ackFailed) < MaxDbErrors
    /\ dbErrors' = dbErrors + 1
    /\ reapPending' = reapPending \ {a}
    /\ UNCHANGED <<now, db, connections, sess, queue, rxOpen, sequence_map,
                   hbPending, hbNext, reapCur, reapNext, enqLast,
                   firstOut, ackFailed, stalled, hbBlocked>>
    /\ reapTask' = IF reapPending \ {a} = {} /\ shutdown_flag
                   THEN "stopped" ELSE reapTask
    /\ UNCHANGED <<unknownSeen, wrLast, hubSignal, shutdown_flag, hbTask, hubPhase>>
    /\ UNCHANGED <<agentVars, codecVars>>

\* state.remove_connection(&agent_id) after the successful UPDATE.
ReaperRemove ==
    /\ hubPhase = "serving"
    /\ reapCur # NoAgent
    /\ ~EntryLocked(reapCur)
    /\ connections' = remove_connection(connections, reapCur)
    /\ reapCur' = NoAgent
    /\ UNCHANGED <<now, db, sess, queue, rxOpen, sequence_map, hbPending,
                   hbNext, reapPending, reapNext, enqLast,
                   dbErrors,
                   firstOut, ackFailed, stalled, hbBlocked>>
    /\ reapTask' = IF reapPending = {} /\ shutdown_flag
                   THEN "stopped" ELSE reapTask
    /\ UNCHANGED <<unknownSeen, wrLast, hubSignal, shutdown_flag, hbTask, hubPhase>>
    /\ UNCHANGED <<agentVars, codecVars>>

----------------------------------------------------------------------------
(* Process signals, signals.rs, and how the tasks see them *)

Signals == {"sigint", "sigterm"}

\* The process receives SIGINT or SIGTERM. shutdown_signal() resolves for
\* either and axum stops accepting. The background tasks listen with
\* tokio::signal::ctrl_c() only, through a future made anew at every pass of
\* their select: a task suspended there gets its ctrl_c branch ready on
\* SIGINT; a task in the middle of its round has no listener and misses it.
Signal(k) ==
    /\ hubPhase = "serving"
    /\ hubSignal = "none"
    /\ hubSignal' = k
    /\ hbTask' = IF k = "sigint" /\ hbTask = "running" /\ hbPending = {}
                 THEN "signalled" ELSE hbTask
    /\ reapTask' = IF k = "sigint" /\ reapTask = "running"
                      /\ reapPending = {} /\ reapCur = NoAgent
                   THEN "signalled" ELSE reapTask
    /\ UNCHANGED <<now, db, connections, sess, queue, rxOpen, sequence_map,
                   hbPending, hbNext, reapPending, reapCur, reapNext,
                   enqLast, dbErrors, firstOut, ackFailed, stalled,
                   hbBlocked>>
    /\ UNCHANGED <<unknownSeen, wrLast, shutdown_flag, hubPhase>>
    /\ UNCHANGED <<agentVars, codecVars>>

\* heartbeat_sender_task takes the ctrl_c branch: sets the flag and breaks.
HbObservesSignal ==
    /\ hubPhase = "serving"
    /\ hbTask = "signalled"
    /\ hbTask' = "stopped"
    /\ shutdown_flag' = TRUE
    /\ UNCHANGED <<now, db, connections, sess, queue, rxOpen, sequence_map,
                   hbPending, hbNext, reapPending, reapCur, reapNext,
                   enqLast, dbErrors, firstOut, ackFailed, stalled,
                   hbBlocked>>
    /\ UNCHANGED <<unknownSeen, wrLast, hubSignal, reapTask, hubPhase>>
    /\ UNCHANGED <<agentVars, codecVars>>

\* cleanup_task takes the ctrl_c branch: sets the flag and breaks.
ReaperObservesSignal ==
    /\ hubPhase = "serving"
    /\ reapTask = "signalled"
    /\ reapTask' = "stopped"
    /\ shutdown_flag' = TRUE
    /\ UNCHANGED <<now, db, connections, sess, queue, rxOpen, sequence_map,
                   hbPending, hbNext, reapPending, reapCur, reapNext,
                   enqLast, dbErrors, firstOut, ackFailed, stalled,
                   hbBlocked>>
    /\ UNCHANGED <<unknownSeen, wrLast, hubSignal, hbTask, hubPhase>>
    /\ UNCHANGED <<agentVars, codecVars>>

\* axum::serve returns after the signal, App::run returns the exit code and
\* main ends: the runtime is dropped with whatever tasks are still there.
HubExits ==
    /\ hubPhase = "serving"
    /\ hubSignal # "none"
    /\ hubPhase' = "exited"
    /\ UNCHANGED <<now, db, connections, sess, queue, rxOpen, sequence_map,
                   hbPending, hbNext, reapPending, reapCur, reapNext,
                   enqLast, dbErrors, firstOut, ackFailed, stalled,
                   hbBlocked>>
    /\ UNCHANGED <<unknownSeen, wrLast, hubSignal, shutdown_flag, hbTask,
                   reapTask>>
    /\ UNCHANGED <<agentVars, codecVars>>

----------------------------------------------------------------------------
(* Hub clock *)

\* The heartbeat task is between rounds, or waits on a full channel.
HbIdle ==
    hbPending = {} \/ (hbBlocked # NoAgent /\ SendWouldBlock(hbBlocked))

\* Every live outbound task has written what was queued for it, or cannot.
PumpsIdle ==
    \A s \in Sessions : (rxOpen[s] /\ ~stalled[s]) => queue[s] = <<>>

ReaperIdle == reapPending = {} /\ reapCur = NoAgent

\* The cleanup task waits for the registry entry it is about to remove.
ReaperBlocked ==
    reapPending = {} /\ reapCur # NoAgent /\ EntryLocked(reapCur)

\* No handler is between the statements of its registration handshake,
\* unless it waits for the registry entry.
HandshakesIdle ==
    \A s \in Sessions :
        /\ sess[s].pc \notin {"resolved", "recorded"}
        /\ sess[s].pc = "acked" => EntryLocked(sess[s].agent_id)

MinOf(S) == CHOOSE x \in S : \A y \in S : x <= y

\* The instants at which a timer of the hub expires: the two intervals and
\* the registration timeouts of the handlers waiting for a first frame.
HubTimers ==
    (IF hbTask # "stopped" THEN {hbNext} ELSE {}) \cup
    (IF reapTask # "stopped" THEN {reapNext} ELSE {}) \cup
    {sess[s].deadline : s \in {x \in Sessions : sess[x].pc = "wait_reg"}}

\* Time passes until the next timer expires, at most up to limit.  A due
\* timer fires before the clock moves on unless its task is held up, and a
\* running heartbeat round, cleanup round, registration handshake (database
\* round trips) or socket write completes before it does.  What happens
\* between two expiries is represented at the earlier one.
HubTickTo(limit) ==
    /\ hubPhase = "serving"
    /\ HbIdle
    /\ ReaperIdle \/ ReaperBlocked
    /\ HandshakesIdle
    /\ PumpsIdle
    /\ hbTask # "signalled" /\ reapTask # "signalled"
    /\ (hbTask # "stopped" /\ hbPending = {}) => now < hbNext
    /\ (reapTask # "stopped" /\ ReaperIdle) => now < reapNext
    /\ \A s \in Sessions : sess[s].pc = "wait_reg" => now < sess[s].deadline
    /\ LET T == {d \in HubTimers : d > now}
       IN  /\ T # {}
           /\ MinOf(T) <= limit
           /\ now' = MinOf(T)
    /\ UNCHANGED <<db, connections, sess, queue, rxOpen, sequence_map,
                   hbPending, hbNext, reapPending, reapCur, reapNext,
                   enqLast, dbErrors, firstOut, ackFailed, stalled,
                   hbBlocked>>
    /\ UNCHANGED <<unknownSeen, wrLast, hubSignal, shutdown_flag, hbTask,
                   reapTask, hubPhase>>
    /\ UNCHANGED <<agentVars, codecVars>>

HubTick == HubTickTo(MaxTime)

AckTick == HubTickTo(MaxAckTime)

StallTick == HubTickTo(MaxStallTime)

HubInit ==
    /\ now = 0
    /\ db \in [RowIds -> InitRows]
    /\ \A r \in RowIds : r > 1 => db[r] = NoRow
    /\ connections = {}
    /\ sess = [s \in Sessions |-> NoSess]
    /\ queue = [s \in Sessions |-> <<>>]
    /\ rxOpen = [s \in Sessions |-> FALSE]
    /\ sequence_map = <<>>
    /\ hbPending = {}
    /\ hbNext = 0
    /\ reapPending = {}
    /\ reapCur = NoAgent
    /\ reapNext = 0
    /\ enqLast = [s \in Sessions |-> 0]
    /\ dbErrors = 0
    /\ firstOut = [s \in Sessions |-> NoFrame]
    /\ ackFailed = {}
    /\ stalled = [s \in Sessions |-> FALSE]
    /\ hbBlocked = NoAgent
    /\ unknownSeen = {}
    /\ wrLast = [s \in Sessions |-> 0]
    /\ hubSignal = "none"
    /\ shutdown_flag = FALSE
    /\ hbTask = "running"
    /\ reapTask = "running"
    /\ hubPhase = "serving"

\* The steps of the hub's handlers and tasks, socket and database failures
\* of the registration and of the reaper included.
HubStepsNoStale ==
    \/ \E s \in Sessions, i \in Identities : Accept(s, i)
    \/ \E s \in Sessions, f \in FirstFrames : RejectFirstFrame(s, f)
    \/ \E s \in Sessions, f \in FirstFrames, c \in CorrIds :
          LookupExisting(s, f, c)
    \/ \E s \in Sessions : WriteRecord(s)
    \/ \E s \in Sessions : AckSendFails(s)
    \/ \E s \in Sessions : SendRegisterAck(s)
    \/ \E s \in Sessions : RegisterSession(s)
    \/ \E s \in Sessions : HandleHeartbeatAck(s)
    \/ \E s \in Sessions : SessionEnds(s)
    \/ \E s \in Sessions : PumpWrite(s)
    \/ \E s \in Sessions : PumpWriteError(s)
    \/ HbTick
    \/ \E a \in RowIds : HbSend(a)
    \/ ReaperTick

\* The same with stale records for the cleanup task to work on.
HubSteps ==
    \/ HubStepsNoStale
    \/ \E a \in RowIds : ReaperUpdate(a)
    \/ \E a \in RowIds : ReaperUpdateFails(a)
    \/ ReaperRemove

HubNext ==
    \/ HubSteps
    \/ HubTick

vars == <<hubVars, agentVars, codecVars>>

----------------------------------------------------------------------------
(* Agent session driver, crates/podpilot-agent/src/ws/client.rs *)

MinNum(a, b) == IF a <= b THEN a ELSE b

NextBackoffUncapped(b) == b * RECONNECT_BACKOFF_MULTIPLIER

NextBackoffAdditive(b) == MinNum(b + 1, RECONNECT_MAX_BACKOFF)

\* backoff = min(from_secs_f64(backoff.as_secs_f64() * MULTIPLIER), MAX)
NextBackoff(b) ==
    MinNum(b * RECONNECT_BACKOFF_MULTIPLIER, RECONNECT_MAX_BACKOFF)

BackoffAfterOkKept(b) == b

\* run(), Ok(_) arm: backoff = RECONNECT_INITIAL_BACKOFF
BackoffAfterOk(b) == RECONNECT_INITIAL_BACKOFF

\* monitor: elapsed > HEARTBEAT_TIMEOUT
HeartbeatTimedOut(t, last) == t - last > HEARTBEAT_TIMEOUT

AckWithOtherId(hb) ==
    [type |-> "heartbeat_ack",
     correlation_id |-> (hb.correlation_id % MaxCorr) + 1]

\* handle_hub_message: HeartbeatAckMessage { correlation_id: hb.correlation_id }
AckFor(hb) ==
    [type |-> "heartbeat_ack", correlation_id |-> hb.correlation_id]

\* Frames the hub side of the socket can deliver to a Connected agent:
\* the HubMessage variants and text that does not parse.
HubFrames ==
    {[type |-> "heartbeat", correlation_id |-> c] : c \in CorrIds} \cup
    {[type |-> t, correlation_id |-> 0] :
        t \in {"register_ack", "error", "unparsable"}}

LoopTopIgnoresShutdown ==
    /\ apc = "loop"
    /\ IF FALSE
       THEN /\ apc' = "done"
            /\ UNCHANGED <<attempts>>
       ELSE /\ apc' = "connecting"
            /\ attempts' = IF immediate THEN Append(attempts, clock)
                           ELSE attempts
    /\ UNCHANGED <<clock, backoff, reconnect_count, sleepUntil, regDeadline,
                   last_heartbeat, monitor, monNext, shutdownReq, received,
                   acked, immediate>>
    /\ UNCHANGED <<closing, lastFailure>>
    /\ UNCHANGED protoViolation
    /\ UNCHANGED <<hubVars, codecVars>>

\* run(), top of the loop: shutdown already signalled, else connect.
LoopTop ==
    /\ apc = "loop"
    /\ IF shutdownReq
       THEN /\ apc' = "done"
            /\ UNCHANGED <<attempts>>
       ELSE /\ apc' = "connecting"
            /\ attempts' = IF immediate THEN Append(attempts, clock)
                           ELSE attempts
    /\ UNCHANGED <<clock, backoff, reconnect_count, sleepUntil, regDeadline,
                   last_heartbeat, monitor, monNext, shutdownReq, received,
                   acked, immediate>>
    /\ UNCHANGED <<closing, lastFailure>>
    /\ UNCHANGED protoViolation
    /\ UNCHANGED <<hubVars, codecVars>>

AfterErrorReturn == "done"

\* run(), Err(e) arm: the loop goes on, through tokio::time::sleep(backoff).
AfterError == "sleeping"

\* run(), Err(e) arm: count, sleep(backoff).
FailAttempt ==
    /\ reconnect_count' = reconnect_count + 1
    /\ sleepUntil' = clock + backoff
    /\ apc' = AfterError
    /\ regDeadline' = 0
    /\ UNCHANGED protoViolation
    /\ UNCHANGED <<clock, backoff, last_heartbeat, monitor, monNext,
                   shutdownReq, received, acked>>

\* connect_async(&self.hub_url).await? fails.
ConnectFails ==
    /\ apc = "connecting"
    /\ FailAttempt
    /\ immediate' = (immediate /\ clock = attempts[Len(attempts)])
    /\ attempts' = IF immediate' THEN attempts ELSE <<>>
    /\ lastFailure' = "connect_error"
    /\ UNCHANGED closing
    /\ UNCHANGED <<hubVars, codecVars>>

NotImmediate ==
    /\ immediate' = FALSE
    /\ attempts' = <<>>

\* Connected; Register serialized and sent; now waiting for the response.
ConnectOk ==
    /\ apc = "connecting"
    /\ apc' = "await_ack"
    /\ regDeadline' = clock + RegistrationTimeout
    /\ NotImmediate
    /\ UNCHANGED <<clock, backoff, reconnect_count, sleepUntil,
                   last_heartbeat, monitor, monNext, shutdownReq, received,
                   acked>>
    /\ UNCHANGED <<closing, lastFailure>>
    /\ UNCHANGED protoViolation
    /\ UNCHANGED <<hubVars, codecVars>>

\* ws_sender.send(Register).await? fails.
RegisterSendFails ==
    /\ apc = "connecting"
    /\ FailAttempt
    /\ NotImmediate
    /\ lastFailure' = "register_send"
    /\ UNCHANGED closing
    /\ UNCHANGED <<hubVars, codecVars>>

\* What ends the wait for the registration response short of a RegisterAck:
\* the 30s timeout, the end of the stream, a read error, a frame that is not
\* text, text that does not parse, a hub Error envelope, another HubMessage.
ResponseFailures ==
    {"timeout", "stream_closed", "read_error", "not_text", "unparsable",
     "hub_error", "other_message"}

RegistrationFailsReturnsOk(c) ==
    /\ apc = "await_ack"
    /\ c \in ResponseFailures
    /\ c = "timeout" => clock >= regDeadline
    /\ IF c = "other_message"
       THEN /\ apc' = "loop"
            /\ backoff' = RECONNECT_INITIAL_BACKOFF
            /\ reconnect_count' = 0
            /\ regDeadline' = 0
            /\ lastFailure' = "none"
            /\ UNCHANGED protoViolation
            /\ UNCHANGED <<clock, sleepUntil, last_heartbeat, monitor,
                           monNext, shutdownReq, received, acked>>
       ELSE /\ FailAttempt
            /\ lastFailure' = c
    /\ UNCHANGED <<attempts, immediate>>
    /\ UNCHANGED closing
    /\ UNCHANGED <<hubVars, codecVars>>

\* Each of them makes connect_and_handle return Err through `?` or bail!.
\* timeout() polls the read first: it expires only at its deadline.
RegistrationFails(c) ==
    /\ apc = "await_ack"
    /\ c \in ResponseFailures
    /\ c = "timeout" => clock >= regDeadline
    /\ FailAttempt
    /\ UNCHANGED <<attempts, immediate>>
    /\ lastFailure' = c
    /\ UNCHANGED closing
    /\ UNCHANGED <<hubVars, codecVars>>

\* RegisterAck: handle_registration_ack, last_heartbeat = now, spawn monitor.
RegistrationAcked ==
    /\ apc = "await_ack"
    /\ apc' = "connected"
    /\ last_heartbeat' = clock
    /\ monitor' = "running"
    /\ monNext' = clock
    /\ regDeadline' = 0
    /\ received' = <<>>
    /\ acked' = <<>>
    /\ UNCHANGED <<clock, backoff, reconnect_count, sleepUntil, shutdownReq,
                   attempts, immediate>>
    /\ UNCHANGED <<closing, lastFailure>>
    /\ UNCHANGED protoViolation
    /\ UNCHANGED <<hubVars, codecVars>>

\* Frames that break the protocol in a Connected session: text that is no
\* HubMessage (unparsable, or of an unknown variant) and a second RegisterAck.
ProtocolViolations == {"unparsable", "register_ack"}

\* Message loop, Text frame: handle_hub_message.  A Heartbeat refreshes
\* last_heartbeat and is acked; if the ack cannot be written the error is
\* logged and the loop goes on.  Other frames are logged.
RecvFrame(f, sendOk) ==
    /\ apc = "connected"
    /\ f.type # "heartbeat" => sendOk
    /\ IF f.type = "heartbeat"
       THEN /\ last_heartbeat' = clock
            /\ IF Len(received) < MaxHeartbeats
               THEN /\ received' = Append(received,
                                     [correlation_id |-> f.correlation_id,
                                      sent |-> sendOk])
                    /\ acked' = IF sendOk THEN Append(acked, AckFor(f))
                                ELSE acked
               ELSE UNCHANGED <<received, acked>>
       ELSE UNCHANGED <<last_heartbeat, received, acked>>
    /\ UNCHANGED <<clock, apc, backoff, reconnect_count, sleepUntil,
                   regDeadline, monitor, monNext, shutdownReq, attempts,
                   immediate>>
    /\ UNCHANGED <<closing, lastFailure>>
    /\ protoViolation' = (protoViolation \/ f.type \in ProtocolViolations)
    /\ UNCHANGED <<hubVars, codecVars>>

\* The session is over: the monitor is gone, and last_heartbeat is not read
\* again before the next session overwrites it.
SessionGone ==
    /\ monitor' = "none"
    /\ monNext' = 0
    /\ last_heartbeat' = 0
    /\ regDeadline' = 0
    /\ received' = <<>>
    /\ acked' = <<>>
    /\ protoViolation' = FALSE

\* run(), Ok(_) arm.
SessionReturnsOk ==
    /\ apc' = "loop"
    /\ backoff' = BackoffAfterOk(backoff)
    /\ reconnect_count' = 0
    /\ SessionGone
    /\ UNCHANGED <<clock, sleepUntil, shutdownReq, attempts, immediate>>

\* Message loop ends: Close frame, read error or end of stream; the monitor
\* is aborted and connect_and_handle returns Ok(()).
SessionCloses ==
    /\ apc = "connected"
    /\ SessionReturnsOk
    /\ UNCHANGED <<closing, lastFailure>>
    /\ UNCHANGED <<hubVars, codecVars>>

\* Message loop, shutdown branch: Close frame sent, break "shutdown".
SessionObservesShutdown ==
    /\ apc = "connected"
    /\ shutdownReq
    /\ SessionReturnsOk
    /\ closing' = "sent"
    /\ UNCHANGED lastFailure
    /\ UNCHANGED <<hubVars, codecVars>>

\* run(), shutdown branch of the select: connect_and_handle is dropped.
RunObservesShutdown ==
    /\ apc \in {"connecting", "await_ack", "connected"}
    /\ shutdownReq
    /\ apc' = "done"
    /\ SessionGone
    /\ UNCHANGED <<clock, backoff, reconnect_count, sleepUntil, shutdownReq,
                   attempts, immediate>>
    /\ UNCHANGED <<closing, lastFailure>>
    /\ UNCHANGED <<hubVars, codecVars>>

\* Heartbeat monitor, check_interval.tick(): break on timeout, else go on.
\* Nothing awaits the monitor task: its end is not observed by the session.
MonitorCheck ==
    /\ monitor = "running"
    /\ ~shutdownReq
    /\ clock >= monNext
    /\ IF HeartbeatTimedOut(clock, last_heartbeat)
       THEN /\ monitor' = "ended"
            /\ monNext' = 0
       ELSE /\ monNext' = monNext + MonitorInterval
            /\ UNCHANGED monitor
    /\ UNCHANGED <<clock, apc, backoff, reconnect_count, sleepUntil,
                   regDeadline, last_heartbeat, shutdownReq, received, acked,
                   attempts, immediate>>
    /\ UNCHANGED <<closing, lastFailure>>
    /\ UNCHANGED protoViolation
    /\ UNCHANGED <<hubVars, codecVars>>

\* tokio::time::sleep(backoff) completes; the backoff is raised.
SleepEnds ==
    /\ apc = "sleeping"
    /\ clock >= sleepUntil
    /\ backoff' = NextBackoff(backoff)
    /\ apc' = "loop"
    /\ sleepUntil' = 0
    /\ UNCHANGED <<clock, reconnect_count, regDeadline,
                   last_heartbeat, monitor, monNext, shutdownReq, received,
                   acked, attempts, immediate>>
    /\ lastFailure' = "none"
    /\ UNCHANGED closing
    /\ UNCHANGED protoViolation
    /\ UNCHANGED <<hubVars, codecVars>>

\* WsClient::shutdown(): shutdown_tx.send(true).
Shutdown ==
    /\ ~shutdownReq
    /\ apc # "done"
    /\ shutdownReq' = TRUE
    /\ closing' = IF apc = "connected" THEN "owed" ELSE closing
    /\ UNCHANGED lastFailure
    /\ UNCHANGED <<clock, apc, backoff, reconnect_count, sleepUntil,
                   regDeadline, last_heartbeat, monitor, monNext, received,
                   acked, attempts, immediate>>
    /\ UNCHANGED protoViolation
    /\ UNCHANGED <<hubVars, codecVars>>

\* The instants at which a timer of the agent expires.
AgentDeadlines ==
    (IF apc = "sleeping" THEN {sleepUntil} ELSE {}) \cup
    (IF apc = "await_ack" THEN {regDeadline} ELSE {}) \cup
    (IF monitor = "running" /\ ~shutdownReq THEN {monNext} ELSE {})

\* A select of run() or of the message loop has its shutdown branch ready.
ShutdownPending ==
    shutdownReq /\ apc \in {"connecting", "await_ack", "connected"}

\* Time passes: up to the next timer expiry; when no timer runs, one second
\* while connecting and one monitor interval in a session.  An expired timer
\* fires, the loop top runs and a ready shutdown branch is taken before time
\* passes.
AgentTickTo(limit) ==
    /\ apc \notin {"loop", "done"}
    /\ ~ShutdownPending
    /\ \A d \in AgentDeadlines : clock < d
    /\ clock' = IF AgentDeadlines # {} THEN MinOf(AgentDeadlines)
                ELSE IF apc = "connecting" THEN clock + 1
                ELSE clock + MonitorInterval
    /\ clock' <= limit
    /\ UNCHANGED <<apc, backoff, reconnect_count, sleepUntil, regDeadline,
                   last_heartbeat, monitor, monNext, shutdownReq, received,
                   acked, attempts, immediate>>
    /\ UNCHANGED <<closing, lastFailure>>
    /\ UNCHANGED protoViolation
    /\ UNCHANGED <<hubVars, codecVars>>

AgentTick == AgentTickTo(MaxAgentTime)

LiveTick == AgentTickTo(MaxLiveTime)

AgentInit ==
    /\ clock = 0
    /\ apc = "loop"
    /\ backoff = RECONNECT_INITIAL_BACKOFF
    /\ reconnect_count = 0
    /\ sleepUntil = 0
    /\ regDeadline = 0
    /\ last_heartbeat = 0
    /\ monitor = "none"
    /\ monNext = 0
    /\ shutdownReq = FALSE
    /\ received = <<>>
    /\ acked = <<>>
    /\ attempts = <<>>
    /\ immediate = TRUE
    /\ closing = "none"
    /\ lastFailure = "none"
    /\ protoViolation = FALSE

AgentSteps ==
    \/ LoopTop
    \/ ConnectFails
    \/ ConnectOk
    \/ RegisterSendFails
    \/ \E c \in ResponseFailures : RegistrationFails(c)
    \/ RegistrationAcked
    \/ \E f \in HubFrames, sendOk \in BOOLEAN : RecvFrame(f, sendOk)
    \/ SessionCloses
    \/ SessionObservesShutdown
    \/ RunObservesShutdown
    \/ MonitorCheck
    \/ SleepEnds
    \/ Shutdown

AgentNext ==
    \/ AgentSteps
    \/ AgentTick

\* The hub side at rest, for the agent's specification.
HubInitQuiet == HubInit /\ \A r \in RowIds : db[r] = NoRow

\* The codec on its own: one message is encoded and decoded.
CodecSpecInit == HubInitQuiet /\ AgentInit /\ CodecInit

CodecSpecNext ==
    \/ CodecEncode
    \/ CodecDecode

CodecSpec == CodecSpecInit /\ [][CodecSpecNext]_vars

Init == HubInit /\ AgentInit /\ CodecIdle

Next == HubNext

Spec == Init /\ [][Next]_vars

\* The hub with failing last_seen_at updates.
AckSpecNext ==
    \/ HubSteps
    \/ \E s \in Sessions : HeartbeatAckUpdateFails(s)
    \/ AckTick

AckSpec == Init /\ [][AckSpecNext]_vars

\* The hub with failing resolver statements and frames it cannot decode, on
\* an empty table.
FaultSpecInit == HubInitQuiet /\ AgentInit /\ CodecIdle

FaultSpecNext ==
    \/ HubStepsNoStale
    \/ \E s \in Sessions : LookupFails(s)
    \/ \E s \in Sessions : WriteRecordFails(s)
    \/ \E s \in Sessions : HandleUndecodable(s)
    \/ AckTick

FaultSpec == FaultSpecInit /\ [][FaultSpecNext]_vars

\* An agent connects before the first heartbeat interval is over.
EarlyAccept(s, i) == now < HeartbeatInterval /\ Accept(s, i)

\* An agent stops reading before the first heartbeat interval is over.
EarlyStall(s) == now < HeartbeatInterval /\ SocketStalls(s)

\* An agent disconnects before the first heartbeat interval is over.
EarlyEnd(s) == now < HeartbeatInterval /\ SessionEnds(s)

\* A socket write fails before the first heartbeat interval is over.
EarlyWriteError(s) == now < HeartbeatInterval /\ PumpWriteError(s)

\* The hub with a process signal.
ShutdownSpecNext ==
    \/ HubStepsNoStale
    \/ \E k \in Signals : Signal(k)
    \/ HbObservesSignal
    \/ ReaperObservesSignal
    \/ HubExits
    \/ AckTick

ShutdownSpec == FaultSpecInit /\ [][ShutdownSpecNext]_vars

QueueTick == HubTickTo(MaxQueueTime)

\* The steps of the hub whose scheduling is the runtime's: the handshake
\* once the first frame is there, the outbound tasks, the heartbeat task and
\* the cleanup task.
QueueTasks ==
    \/ \E s \in Sessions : WriteRecord(s)
    \/ \E s \in Sessions : SendRegisterAck(s)
    \/ \E s \in Sessions : RegisterSession(s)
    \/ \E s \in Sessions : PumpWrite(s)
    \/ HbTick
    \/ \E a \in RowIds : HbSend(a)
    \/ ReaperTick

\* The hub with agents that connect early, read their socket late or not at
\* all, messages that cannot be serialized and failing socket writes, on an
\* empty table.
QueueSpecNext ==
    \/ QueueTasks
    \/ \E s \in Sessions, i \in Identities : EarlyAccept(s, i)
    \/ \E s \in Sessions, f \in FirstFrames : RejectFirstFrame(s, f)
    \/ \E s \in Sessions, f \in FirstFrames, c \in CorrIds :
          LookupExisting(s, f, c)
    \/ \E s \in Sessions : SessionEnds(s)
    \/ \E s \in Sessions : SocketStalls(s)
    \/ \E s \in Sessions : SocketResumes(s)
    \/ \E s \in Sessions : PumpSerializeFails(s)
    \/ \E s \in Sessions : PumpWriteError(s)
    \/ QueueTick

QueueSpec ==
    /\ FaultSpecInit
    /\ [][QueueSpecNext]_vars
    /\ WF_vars(QueueTasks)
    /\ WF_vars(QueueTick)

EvictTick == HubTickTo(MaxEvictTime)

\* The runtime's steps with the cleanup task's work on stale records.
EvictTasks ==
    \/ QueueTasks
    \/ \E a \in RowIds : ReaperUpdate(a)
    \/ ReaperRemove

\* The hub with agents that register while the cleanup task works on the
\* stale records it has selected.
EvictSpecNext ==
    \/ EvictTasks
    \/ \E s \in Sessions, i \in Identities : EarlyAccept(s, i)
    \/ \E s \in Sessions, f \in FirstFrames : RejectFirstFrame(s, f)
    \/ \E s \in Sessions, f \in FirstFrames, c \in CorrIds :
          LookupExisting(s, f, c)
    \/ \E s \in Sessions : HandleHeartbeatAck(s)
    \/ \E s \in Sessions : SessionEnds(s)
    \/ EvictTick

EvictSpec ==
    /\ Init
    /\ [][EvictSpecNext]_vars
    /\ WF_vars(EvictTasks)
    /\ WF_vars(EvictTick)

\* The hub with agents that connect early and then either stay connected or
\* stop reading their socket for good, on an empty table.
StallSpecInit == HubInitQuiet /\ AgentInit /\ CodecIdle

StallSpecNext ==
    \/ \E s \in Sessions, i \in Identities : EarlyAccept(s, i)
    \/ \E s \in Sessions, f \in FirstFrames : RejectFirstFrame(s, f)
    \/ \E s \in Sessions, f \in FirstFrames, c \in CorrIds :
          LookupExisting(s, f, c)
    \/ \E s \in Sessions : WriteRecord(s)
    \/ \E s \in Sessions : SendRegisterAck(s)
    \/ \E s \in Sessions : RegisterSession(s)
    \/ \E s \in Sessions : EarlyEnd(s)
    \/ \E s \in Sessions : EarlyStall(s)
    \/ \E s \in Sessions : PumpWrite(s)
    \/ \E s \in Sessions : EarlyWriteError(s)
    \/ HbTick
    \/ \E a \in RowIds : HbBlocks(a)
    \/ \E a \in RowIds : HbSend(a)
    \/ ReaperTick
    \/ StallTick

StallSpec == StallSpecInit /\ [][StallSpecNext]_vars

TimersTick == HubTickTo(MaxTimersTime)

\* The hub with agents that connect early and then either ack every
\* heartbeat at once or stop reading their socket for good, on an empty
\* table, with no socket and no database failure.
TimersSpecNext ==
    \/ \E s \in Sessions, i \in Identities : EarlyAccept(s, i)
    \/ \E s \in Sessions, f \in FirstFrames : RejectFirstFrame(s, f)
    \/ \E s \in Sessions, f \in FirstFrames, c \in CorrIds :
          LookupExisting(s, f, c)
    \/ \E s \in Sessions : WriteRecord(s)
    \/ \E s \in Sessions : SendRegisterAck(s)
    \/ \E s \in Sessions : RegisterSession(s)
    \/ \E s \in Sessions : EarlyEnd(s)
    \/ \E s \in Sessions : EarlyStall(s)
    \/ \E s \in Sessions : PumpWriteAndAck(s)
    \/ HbTick
    \/ \E a \in RowIds : HbBlocks(a)
    \/ \E a \in RowIds : HbSend(a)
    \/ ReaperTick
    \/ TimersTick

TimersSpec == StallSpecInit /\ [][TimersSpecNext]_vars

AgentSpecInit == HubInitQuiet /\ AgentInit /\ CodecIdle

AgentSpecNext == AgentNext

AgentSpec == AgentSpecInit /\ [][AgentSpecNext]_vars

\* The agent under its scheduler: the run() loop proceeds, a ready shutdown
\* branch of a select is taken, a sleep ends and time passes.
AgentLiveNext ==
    \/ AgentSteps
    \/ LiveTick

AgentLiveSpec ==
    /\ AgentSpecInit
    /\ [][AgentLiveNext]_vars
    /\ WF_vars(LoopTop)
    /\ WF_vars(RunObservesShutdown)
    /\ WF_vars(SleepEnds)
    /\ WF_vars(LiveTick)

----------------------------------------------------------------------------
(* Properties of the hub *)

Last(q) == q[Len(q)]

\* A heartbeat was enqueued to session s in this step.
Enqueued(s) == Len(queue'[s]) = Len(queue[s]) + 1

\* A handler calls register_connection in this step.
Registers(s) == sess[s].pc = "acked" /\ sess'[s].pc = "registered"

\* C1: the registry never holds two entries for one agent-id, and a
\* register_connection for an id leaves exactly the registering session's
\* sender stored under that id.
C1_OneEntryPerAgent ==
    /\ [](\A a \in RowIds : Cardinality(EntriesOf(connections, a)) <= 1)
    /\ [][\A s \in Sessions :
            Registers(s) =>
              EntriesOf(connections', sess[s].agent_id)
                = {<<sess[s].agent_id, s>>}]_vars

\* C1 witness: two live handlers hold the same agent-id; the registry entry
\* refers to one of them.
C1_Witness ==
    \E s1, s2 \in Sessions :
        /\ s1 # s2
        /\ sess[s1].pc = "registered"
        /\ sess[s2].pc = "registered"
        /\ sess[s1].agent_id = sess[s2].agent_id
        /\ connections = {<<sess[s2].agent_id, s2>>}

\* C2: within one session every heartbeat enqueued after the first carries the
\* previous heartbeat's sequence plus one.
C2_SequenceStepsByOne ==
    [][\A s \in Sessions :
          (Enqueued(s) /\ enqLast[s] # 0) =>
             Last(queue'[s]) = enqLast[s] + 1]_vars

\* C2 witness: a session has been sent a third consecutive heartbeat.
C2_Witness == \E s \in Sessions : enqLast[s] >= 3 /\ queue[s] # <<>>

\* C3: the first heartbeat enqueued to a session carries sequence 1.
C3_FirstSequenceIsOne ==
    [][\A s \in Sessions :
          (Enqueued(s) /\ enqLast[s] = 0) => Last(queue'[s]) = 1]_vars

\* C4: without database errors, a record in an active status is never stale
\* for more than 30s past the staleness threshold; the reaper's update sets
\* its status to Error and the reaper's remove leaves no registry entry for it.
C4_ReaperActsInTime ==
    /\ [](dbErrors = 0 =>
            \A a \in PresentRows(db) :
               db[a].status \in ActiveStatuses =>
                  now - (db[a].last_seen_at + StaleSeconds) <= 30)
    /\ [][/\ (reapCur = NoAgent /\ reapCur' # NoAgent)
               => db'[reapCur'].status = "error"
          /\ (reapCur # NoAgent /\ reapCur' = NoAgent)
               => reapCur \notin RegisteredIds(connections')]_vars

\* C4 witness: a record that was fresh at hub start went stale while the hub
\* ran and has been marked Error by the reaper.
C4_Witness ==
    \E a \in PresentRows(db) :
        /\ db[a].status = "error"
        /\ db[a].last_seen_at = 0
        /\ dbErrors = 0
        /\ ReaperIdle

LastReaperTick == reapNext - CleanupInterval

\* C5: once the reaper has completed a tick taken more than 30s after the
\* last_seen_at of an agent registered through the handshake, that agent's
\* record is Error and its registry entry is gone.
C5_SilentAgentReaped ==
    \A s \in Sessions :
        (/\ sess[s].pc = "registered"
         /\ ReaperIdle
         /\ dbErrors = 0
         /\ LastReaperTick - db[sess[s].agent_id].last_seen_at > StaleSeconds)
        => (/\ db[sess[s].agent_id].status = "error"
            /\ sess[s].agent_id \notin RegisteredIds(connections))

\* A handler is past the first frame and has not returned.
PastFirstFrame(s) ==
    sess[s].pc \in {"resolved", "recorded", "acked", "registered"}

\* C11: a handler leaves the wait for its first frame within 30s of accept;
\* unless that frame is a Register it returns closed, and that step changes
\* no agent record and no registry entry; only handlers whose first frame was
\* a Register get to write a record or to register.
C11_RejectsWithoutTrace ==
    /\ [](\A s \in Sessions :
            /\ sess[s].pc = "wait_reg" => now <= sess[s].deadline
            /\ PastFirstFrame(s) => sess[s].first = "register")
    /\ [][\A s \in Sessions :
            (/\ sess[s].pc = "wait_reg"
             /\ sess'[s].pc # "wait_reg"
             /\ sess'[s].first # "register")
            => (/\ sess'[s].pc = "closed"
                /\ db' = db
                /\ connections' = connections)]_vars

\* C11 witness: a connection was accepted at hub start and closed when its
\* 30s ran out; no record was ever written and the registry is empty.
C11_Witness ==
    /\ sess[1] = ClosedSess
    /\ sess[2].pc = "none"
    /\ now = HubRegistrationTimeout
    /\ PresentRows(db) = {}
    /\ connections = {}

\* The handler writes the RegisterAck in this step.
SendsAck(s) == sess[s].pc = "recorded" /\ sess'[s].pc = "acked"

\* C12: the first frame a handler writes is a RegisterAck with the Register's
\* correlation-id and the resolver's agent-id; a session has a registry entry
\* or a queued heartbeat only after that RegisterAck, and the first frame
\* written to a socket is never a Heartbeat.
C12_AckBeforeRegistry ==
    /\ [](\A s \in Sessions :
            /\ firstOut[s].type # "heartbeat"
            /\ (\/ \E a \in RowIds : <<a, s>> \in connections
                \/ queue[s] # <<>>
                \/ enqLast[s] # 0) => firstOut[s].type = "register_ack")
    /\ [][\A s \in Sessions :
            /\ SendsAck(s) =>
                 (/\ firstOut[s] = NoFrame
                  /\ firstOut'[s].type = "register_ack"
                  /\ firstOut'[s].correlation_id = sess[s].corr
                  /\ firstOut'[s].agent_id = sess[s].agent_id
                  /\ sess[s].agent_id \in PresentRows(db))
            /\ Registers(s) => firstOut[s].type = "register_ack"]_vars

\* C12 witness: a RegisterAck with the second correlation id has just been
\* written while another session is registered.
C12_Witness ==
    \E s, s2 \in Sessions :
        /\ sess[s].pc = "acked"
        /\ firstOut[s] = [type |-> "register_ack", correlation_id |-> 2,
                          agent_id |-> sess[s].agent_id]
        /\ sess[s2].pc = "registered"

\* create_agent_record finds its row or not in this step.
Resolves(s) == sess[s].pc = "wait_reg" /\ sess'[s].pc = "resolved"

\* create_agent_record writes its row in this step.
Writes(s) == sess[s].pc = "resolved" /\ sess'[s].pc = "recorded"

\* C13: a Register whose identity matches a record with terminated_at unset
\* resolves to such a record; the resolver then returns that record's id,
\* inserts nothing, sets that record's status to Registering and its
\* last_seen_at to now and leaves every other record alone; a record keeps
\* its identity for good.
C13_ReusesExistingRecord ==
    [][/\ \A s \in Sessions :
            /\ (Resolves(s) /\ MatchingRows(db, sess[s].ident) # {})
                 => /\ sess'[s].existing \in PresentRows(db)
                    /\ db[sess'[s].existing].ident = sess[s].ident
                    /\ ~db[sess'[s].existing].terminated_at
            /\ (Writes(s) /\ sess[s].existing # NoAgent)
                 => /\ sess'[s].agent_id = sess[s].existing
                    /\ PresentRows(db') = PresentRows(db)
                    /\ db'[sess[s].existing] =
                         [db[sess[s].existing] EXCEPT
                             !.status = "registering", !.last_seen_at = now]
                    /\ \A r \in RowIds \ {sess[s].existing} : db'[r] = db[r]
       /\ \A r \in PresentRows(db) :
            r \in PresentRows(db') /\ db'[r].ident = db[r].ident]_vars

\* C13 witness: a second session has re-registered the identity of a live
\* session, later than the first, and got the same agent-id.
C13_Witness ==
    \E s1, s2 \in Sessions :
        /\ s1 # s2
        /\ sess[s1].pc = "registered"
        /\ sess[s2].pc = "recorded"
        /\ sess[s2].agent_id = sess[s1].agent_id
        /\ now >= HeartbeatInterval
        /\ db[sess[s2].agent_id].last_seen_at = now
        /\ Cardinality(PresentRows(db)) = 1

\* C14: the resolver never finds a terminated record; when it finds none it
\* inserts one record under an unused id, with the Register's identity,
\* status Registering and last_seen_at now, and changes no other record; no
\* step changes a terminated record.
C14_TerminatedNeverReused ==
    /\ [](\A s \in Sessions :
            sess[s].existing # NoAgent => ~db[sess[s].existing].terminated_at)
    /\ [][/\ \A s \in Sessions :
               (Writes(s) /\ sess[s].existing = NoAgent)
                 => /\ sess'[s].agent_id \in FreeRows(db)
                    /\ db'[sess'[s].agent_id] =
                         [ident |-> sess[s].ident, status |-> "registering",
                          last_seen_at |-> now, terminated_at |-> FALSE]
                    /\ \A r \in RowIds \ {sess'[s].agent_id} :
                          db'[r] = db[r]
          /\ \A r \in PresentRows(db) :
               db[r].terminated_at => db'[r] = db[r]]_vars

\* C14 witness: an agent whose earlier record is terminated has registered
\* and holds a new record next to the untouched terminated one.
C14_Witness ==
    \E s \in Sessions, r \in RowIds :
        /\ sess[s].pc = "registered"
        /\ sess[s].agent_id # r
        /\ db[r].terminated_at
        /\ db[r].status = "terminated"
        /\ db[r].ident = sess[s].ident
        /\ db[sess[s].agent_id].status = "registering"

\* C15: a record whose status is Error or Terminated keeps that status.
C15_TerminalStatusStays ==
    [][\A r \in PresentRows(db) :
          db[r].status \in {"error", "terminated"}
             => db'[r].status = db[r].status]_vars

\* A HeartbeatAck of session s is handled in this step.
AckReceived(s) ==
    /\ sess[s].pc = "registered"
    /\ sess' = sess
    /\ \/ s \in ackFailed' \ ackFailed
       \/ db'[sess[s].agent_id].last_seen_at
            # db[sess[s].agent_id].last_seen_at

\* A step that changes the table and is neither a handler's registration
\* nor the reaper's update: the UPDATE of a HeartbeatAck.
AckUpdate == db' # db /\ sess' = sess /\ reapCur' = reapCur

\* last_seen_at of a record in a non-terminal status does not go back.
LastSeenMonotone ==
    \A r \in PresentRows(db) :
        db[r].status \notin {"error", "terminated"}
           => db'[r].last_seen_at >= db[r].last_seen_at

\* C16 as stated: every HeartbeatAck handled on a registered session leaves
\* last_seen_at of the session's record at the current time.
C16_EveryAckRecorded ==
    [][\A s \in Sessions :
          AckReceived(s) => db'[sess[s].agent_id].last_seen_at = now]_vars

\* C16 amended: the UPDATE of a HeartbeatAck sets last_seen_at of the record
\* of a registered session to the current time and changes nothing else; a
\* HeartbeatAck whose UPDATE fails changes nothing; last_seen_at of a record
\* in a non-terminal status never decreases.
C16_AckTouchesOwnRecord ==
    [][/\ AckUpdate =>
            \E s \in Sessions :
               /\ sess[s].pc = "registered"
               /\ db' = [db EXCEPT ![sess[s].agent_id].last_seen_at = now]
       /\ ackFailed' # ackFailed => db' = db
       /\ LastSeenMonotone]_vars

\* C16 witness: two records exist and one of them has just been refreshed
\* by a HeartbeatAck, later than its registration.
C16_Witness ==
    \E s \in Sessions :
        /\ sess[s].pc = "registered"
        /\ Cardinality(PresentRows(db)) = 2
        /\ now >= HeartbeatInterval
        /\ db[sess[s].agent_id].last_seen_at = now
        /\ enqLast[s] >= 1
        /\ \A r \in PresentRows(db) \ {sess[s].agent_id} :
              db[r].last_seen_at < now

----------------------------------------------------------------------------
(* Properties of the agent *)

RECURSIVE Pow2(_)
Pow2(n) == IF n <= 0 THEN 1 ELSE 2 * Pow2(n - 1)

\* A connection attempt fails in this step: the backoff sleep starts.
AttemptFails == apc # "sleeping" /\ apc' = "sleeping"

\* A session that reached Connected returns to the run() loop in this step.
SessionReturns == apc = "connected" /\ apc' = "loop"

\* C6: the backoff decreases only when a session that reached Connected has
\* returned, and after such a return it is the initial backoff of 1s.
C6_BackoffMonotoneAndReset ==
    [][/\ backoff' < backoff => SessionReturns
       /\ SessionReturns => backoff' = 1]_vars

\* C6 witness: a session reached Connected after a streak of failures that
\* had raised the backoff.
C6_Witness == apc = "connected" /\ backoff >= 4 /\ ~shutdownReq

\* C7: the sleep after the k-th consecutive failure lasts min(2^(k-1), 60)
\* seconds, and the backoff is always within 1..60 seconds.
C7_BackoffSchedule ==
    /\ [](backoff >= 1 /\ backoff <= 60)
    /\ [][AttemptFails =>
            sleepUntil' - clock' = MinNum(Pow2(reconnect_count' - 1), 60)]_vars

\* C7 witness: the eighth consecutive failure, sleeping at the ceiling.
C7_Witness == apc = "sleeping" /\ reconnect_count = 8 /\ sleepUntil - clock = 60

S5Claimed == <<0, 1, 3, 7, 15, 31, 60, 120>>

S5Schedule == <<0, 1, 3, 7, 15, 31, 63, 123>>

\* C8 as stated: when every connect fails at once, the first eight attempts
\* start at 0, 1, 3, 7, 15, 31, 60 and 120 seconds.
C8_S5AsClaimed ==
    immediate =>
       \A k \in 1..Len(attempts) : k <= 8 => attempts[k] = S5Claimed[k]

\* C8 amended: when every connect fails at once, the first eight attempts
\* start at 0, 1, 3, 7, 15, 31, 63 and 123 seconds.
C8_S5Schedule ==
    immediate =>
       \A k \in 1..Len(attempts) : k <= 8 => attempts[k] = S5Schedule[k]

\* C8 witness: the eighth attempt of an unbroken streak has started.
C8_Witness == immediate /\ Len(attempts) = 8 /\ apc = "connecting"

\* C9: a Connected session never outlives its last heartbeat by more than the
\* 30s deadline plus one 5s monitor interval.
C9_TimeoutEndsSession ==
    apc = "connected" =>
       clock - last_heartbeat <= HEARTBEAT_TIMEOUT + MonitorInterval

ExpectedAck(h) ==
    [type |-> "heartbeat_ack", correlation_id |-> h.correlation_id]

RECURSIVE AcksWritten(_)
AcksWritten(log) ==
    IF log = <<>> THEN <<>>
    ELSE IF log[1].sent
         THEN <<ExpectedAck(log[1])>> \o AcksWritten(Tail(log))
         ELSE AcksWritten(Tail(log))

SleepFitsBound ==
    IF apc = "sleeping" THEN sleepUntil <= MaxLiveTime
    ELSE clock + backoff <= MaxLiveTime

\* C17: run() has returned only if shutdown() was called, connection
\* failures never make it return, and once shutdown() was called run()
\* eventually returns, from whatever position.
C17_ReturnsOnlyAndAlwaysOnShutdown ==
    /\ [](apc = "done" => shutdownReq)
    /\ (shutdownReq /\ SleepFitsBound) ~> (apc = "done")

\* C17 witness: shutdown() was called during a backoff sleep after several
\* failures, and run() has returned when the sleep was over.
C17_Witness ==
    /\ apc = "done"
    /\ shutdownReq
    /\ reconnect_count >= 3
    /\ backoff >= 8

\* C18: when run() has returned after a shutdown() that found the agent
\* Connected, the Close frame has been sent.
C18_CloseFrameSent == apc = "done" => closing # "owed"

----------------------------------------------------------------------------
(* Properties of the hub under stalled agents *)

\* C19: a send to a full queue is over, and the registry entry released,
\* before the next heartbeat tick is due.
C19_SendDoesNotWait == hbBlocked # NoAgent => now < hbNext

\* C20: when a heartbeat tick is due, every registered agent whose socket is
\* being read has been sent the heartbeat of the tick before.
C20_FanoutReachesOthers ==
    now >= hbNext =>
       \A e \in connections : ~stalled[e[2]] => e[1] \notin hbPending

----------------------------------------------------------------------------
(* Properties of session termination and of failing database updates *)

\* The inbound loop of the registered session s ends in this step.
SessionTerminates(s) == sess[s].pc = "registered" /\ sess'[s].pc = "closed"

\* The status of record r becomes 'error' in this step.
BecomesError(r) == db[r].status # "error" /\ db'[r].status = "error"

\* C22: a session handler that terminates takes its agent id out of the
\* registry and leaves the agents table as it is; a status becomes Error
\* only by the reaper's update.
C22_TerminationLeavesRecord ==
    [][/\ \A s \in Sessions :
             SessionTerminates(s) =>
                /\ sess[s].agent_id \notin RegisteredIds(connections')
                /\ db' = db
       /\ \A r \in RowIds :
             BecomesError(r) => r \in reapPending /\ reapCur' = r]_vars

\* C22 witness: an agent that was registered and served heartbeats is out of
\* the registry after its handler ended, its record still 'registering',
\* with no record in status 'error'.
C22_Witness ==
    /\ \E s \in Sessions : sess[s].pc = "closed"
    /\ \A r \in RowIds : db[r].status # "error"
    /\ \E a \in DOMAIN sequence_map :
          /\ a \notin RegisteredIds(connections)
          /\ db[a].status = "registering"

\* The reaper's UPDATE of a selected id fails in this step.
ReaperFailure == dbErrors' = dbErrors + 1

\* The cleanup task takes its snapshot of the stale ids in this step.
ReaperSelects == reapNext' # reapNext

\* C23: the reaper removes a registry entry only after its UPDATE of that id
\* succeeded; a failed UPDATE leaves table and registry as they are and
\* schedules no removal, and every tick selects every id that is stale then,
\* those whose UPDATE failed before included.
C23_WriteThenEvict ==
    /\ [](reapCur # NoAgent =>
             db[reapCur].status \in {"error", "registering"})
    /\ [][/\ ReaperFailure =>
                /\ db' = db
                /\ connections' = connections
                /\ reapCur' = NoAgent
          /\ ReaperSelects => reapPending' = StaleAgents(db, now)
          /\ (reapCur # NoAgent /\ reapCur' = NoAgent) =>
                connections' = remove_connection(connections, reapCur)]_vars

\* C23 witness: an UPDATE of the reaper has failed and a later tick has set
\* the record to 'error' all the same.
C23_Witness ==
    /\ dbErrors > 0
    /\ reapCur = NoAgent
    /\ \E r \in RowIds : db[r].status = "error"

\* The last_seen_at UPDATE of session s fails in this step.
AckUpdateFailure(s) == s \in ackFailed' /\ s \notin ackFailed

\* C24: a failed last_seen_at UPDATE leaves the session registered, with its
\* registry entry, and the acks that follow are recorded.
C24_SessionSurvivesAckFailure ==
    /\ [](\A s \in ackFailed : sess[s].pc = "registered")
    /\ [][\A s \in Sessions :
             AckUpdateFailure(s) =>
                /\ sess' = sess
                /\ connections' = connections
                /\ db' = db]_vars

\* C24 witness: after a failed UPDATE the session is still registered and a
\* later HeartbeatAck has refreshed its record.
C24_Witness ==
    \E s \in ackFailed :
        /\ sess[s].pc = "registered"
        /\ <<sess[s].agent_id, s>> \in connections
        /\ db[sess[s].agent_id].last_seen_at = now
        /\ now > 0

----------------------------------------------------------------------------
(* Properties of the hub under failures of the resolver, the codec and the
   socket *)

\* create_agent_record fails for session s in this step.
ResolverFailure(s) == sess[s].pc = "resolved" /\ sess'[s].pc = "closed"

\* C25: when the identity resolver fails, the first frame the hub writes is
\* an error envelope (code "registration_failed"), the session is closed and
\* no registry entry is made.
C25_RegistrationFailedEnvelope ==
    [][\A s \in Sessions :
          ResolverFailure(s) =>
             /\ firstOut'[s].type = "error"
             /\ connections' = connections]_vars

\* Session s reads a frame it cannot decode in this step.
UndecodableFrame(s) == s \in unknownSeen' /\ s \notin unknownSeen

\* C26: a registered session that reads a frame with an unknown variant tag
\* is closed (after an Error envelope with code "unknown_message").
C26_UnknownFrameClosesSession ==
    [][\A s \in Sessions :
          UndecodableFrame(s) => sess'[s].pc = "closed"]_vars

Increasing(q) == \A i \in 1..(Len(q) - 1) : q[i] < q[i + 1]

\* Something leaves the outbound queue of session s while its outbound task
\* goes on.
Dequeued(s) == Len(queue'[s]) < Len(queue[s]) /\ rxOpen'[s]

\* C27: what is written to an agent's socket is written in the order it was
\* enqueued: the queue holds only messages younger than the last one
\* written, oldest first, and each step of the outbound task takes the oldest
\* of them, writes it or drops it (serialization failure), and leaves the
\* others and the session as they are.
C27_FifoWrites ==
    /\ [](\A s \in Sessions :
             /\ Increasing(queue[s])
             /\ \A i \in 1..Len(queue[s]) : queue[s][i] > wrLast[s])
    /\ [][\A s \in Sessions :
             Dequeued(s) =>
                /\ queue'[s] = Tail(queue[s])
                /\ wrLast'[s] \in {wrLast[s], Head(queue[s])}
                /\ sess' = sess
                /\ connections' = connections]_vars

\* C27 witness: of the heartbeats 1, 2 and 3 of a session, 1 has been
\* written, 2 has been dropped and 3 is queued; the session goes on.
C27_Witness ==
    \E s \in Sessions :
        /\ sess[s].pc = "registered"
        /\ rxOpen[s]
        /\ wrLast[s] = 1
        /\ queue[s] = <<3>>

\* C28: after a socket write error of its outbound task, a session handler
\* terminates and the registry entry goes.
C28_WriteErrorEndsSession ==
    \A s \in Sessions :
        (sess[s].pc = "registered" /\ ~rxOpen[s])
           ~> (sess[s].pc # "registered")

\* A round of the heartbeat task, or of the cleanup task, starts.
TickRuns == hbNext' # hbNext \/ reapNext' # reapNext

\* C29: once a shutdown signal has been delivered, no heartbeat tick and no
\* reaper tick runs any more, and when the hub process ends every registered
\* session has been closed and removed from the registry.
C29_ShutdownObserved ==
    /\ [][hubSignal # "none" => ~TickRuns]_vars
    /\ [][hubPhase' = "exited" => connections = {}]_vars

\* The cleanup task has marked the record of s's agent and is about to take
\* the id out of the registry, where s's sender is stored.
EvictionOf(s) ==
    /\ reapCur # NoAgent
    /\ sess[s].pc = "registered"
    /\ <<reapCur, s>> \in connections

\* C33: a session whose registry entry the reaper removes is destroyed: its
\* handler terminates and closes the socket.
C33_EvictionEndsSession ==
    \A s \in Sessions : EvictionOf(s) ~> (sess[s].pc # "registered")

\* A step of the heartbeat task: a tick, or one send of a round.
HeartbeatStep ==
    hbNext' # hbNext \/ hbPending' # hbPending \/ hbBlocked' # hbBlocked

\* The send to agent a of this round is over and nothing was enqueued.
EnqueueFails(a) == a \in hbPending /\ a \notin hbPending' /\ queue' = queue

\* C34: a step of the heartbeat task leaves the registry, the sessions and
\* their channels as they are; after a failed enqueue to an agent the
\* sequence entry of that agent, and of no other agent, is gone.
C34_HeartbeatKeepsRegistry ==
    [][HeartbeatStep =>
          /\ connections' = connections
          /\ sess' = sess
          /\ rxOpen' = rxOpen
          /\ \A a \in RowIds :
                EnqueueFails(a) =>
                  /\ a \notin DOMAIN sequence_map'
                  /\ \A b \in DOMAIN sequence_map \ {a} :
                        /\ b \in DOMAIN sequence_map'
                        /\ sequence_map'[b] = sequence_map[b]]_vars

\* C34 witness: a round is over in which the enqueue to a registered session
\* failed, its outbound task being gone; the entry is still in the registry
\* and the sequence entry the session's earlier heartbeat had made is not.
C34_Witness ==
    \E e \in connections :
        /\ sess[e[2]].pc = "registered"
        /\ ~rxOpen[e[2]]
        /\ enqLast[e[2]] > 0
        /\ e[1] \notin DOMAIN sequence_map
        /\ hbPending = {}
        /\ now < hbNext

\* The reaper takes id a out of the registry in this step.
ReaperEvicts(a) == reapCur = a /\ reapCur' = NoAgent

\* Another session registers under id a in this step.
Displaces(a) == \E s \in Sessions : Registers(s) /\ sess[s].agent_id = a

\* C35: the registry entry of a session stays until that very session
\* terminates, the reaper evicts the id or a newer session replaces it; the
\* end of an older session with the same agent-id does not remove it.
C35_EntryOutlivesDisplacedSession ==
    [][\A e \in connections :
          (/\ sess'[e[2]].pc = "registered"
           /\ ~ReaperEvicts(e[1])
           /\ ~Displaces(e[1])) => e \in connections']_vars

\* C36: no two records with terminated_at unset carry the same identity
\* (tailscale_ip, provider_instance_id), however registrations interleave.
C36_OneLiveRecordPerIdentity ==
    \A r1, r2 \in PresentRows(db) :
        (/\ db[r1].ident = db[r2].ident
         /\ ~db[r1].terminated_at
         /\ ~db[r2].terminated_at) => r1 = r2

\* C37: the reaper sets a record to Error, and takes an id out of the
\* registry, only if the record is stale at that moment: an active status and
\* a last_seen_at more than 30s old.
C37_ReaperActsOnStaleOnly ==
    [][\A r \in RowIds :
          /\ BecomesError(r) => r \in StaleAgents(db, now)
          /\ (ReaperEvicts(r) /\ EntriesOf(connections, r) # {})
                => db[r].last_seen_at < now - StaleSeconds]_vars

\* Session s is registered, holds the registry entry of its agent, reads its
\* socket and has acked every heartbeat written to it; the other sessions
\* are other agents'.
HealthySession(s) ==
    /\ sess[s].pc = "registered"
    /\ rxOpen[s]
    /\ ~stalled[s]
    /\ <<sess[s].agent_id, s>> \in connections
    /\ \A t \in Sessions \ {s} : sess[t].ident # sess[s].ident

\* C39: the record of a healthy session was refreshed, by the ack of a
\* heartbeat the agent received at that instant, no more than 30s ago,
\* whatever the other agents do: neither the hub's staleness threshold nor
\* the agent's heartbeat deadline is passed.
C39_TimersAgree ==
    \A s \in Sessions :
        HealthySession(s) =>
           now - db[sess[s].agent_id].last_seen_at <= StaleSeconds

----------------------------------------------------------------------------
(* Properties of the agent's failed attempts *)

\* A connection attempt is over without having reached Connected.
AttemptEndsUnconnected ==
    /\ apc \in {"connecting", "await_ack"}
    /\ apc' \notin {"connecting", "await_ack", "connected"}

\* run() takes its Err arm: the failure is counted and sleep(backoff) starts.
CountsAsFailure ==
    /\ apc' = "sleeping"
    /\ reconnect_count' = reconnect_count + 1
    /\ sleepUntil' = clock + backoff
    /\ backoff' = backoff

\* The causes for which an attempt does not reach Connected.
AttemptFailures == {"connect_error", "register_send"} \cup ResponseFailures

\* C30: an attempt that ends before Connected (connect error, Register not
\* sent, timeout, closed stream, hub Error, any message other than the
\* RegisterAck) is counted as a failure and followed by a sleep of the current
\* backoff, after which the backoff is doubled up to its ceiling; only a
\* shutdown ends an attempt otherwise.
C30_FailedAttemptBacksOff ==
    /\ [][AttemptEndsUnconnected =>
            CountsAsFailure \/ (shutdownReq /\ apc' = "done")]_vars
    /\ [][(apc = "sleeping" /\ apc' # "sleeping") =>
            /\ clock >= sleepUntil
            /\ backoff' = NextBackoff(backoff)
            /\ apc' = "loop"]_vars
    /\ [](apc = "sleeping" <=> lastFailure \in AttemptFailures)

\* C30 witness: a Heartbeat arrived instead of the RegisterAck in the second
\* failed attempt in a row; the agent sleeps the doubled backoff.
C30_Witness ==
    /\ apc = "sleeping"
    /\ lastFailure = "other_message"
    /\ reconnect_count = 2
    /\ backoff = NextBackoff(RECONNECT_INITIAL_BACKOFF)
    /\ sleepUntil = clock + backoff

\* C31: a Connected session that reads a frame breaking the protocol (text
\* that does not parse, an unknown variant, a RegisterAck) is torn down by
\* that read: no session goes on after one.
C31_ViolationEndsSession == protoViolation => apc # "connected"

\* A Connected session is lost in this step: read error, end of stream or
\* Close frame from the hub, with no shutdown requested.
SessionLost == apc = "connected" /\ apc' # "connected" /\ ~shutdownReq

\* C32: an agent that loses its Connected session starts a backoff sleep of
\* at least the initial backoff; it is not back at the top of the run() loop,
\* about to connect, at the instant the session ended.
C32_BackoffAfterSessionLoss ==
    [][SessionLost =>
          /\ apc' = "sleeping"
          /\ sleepUntil' >= clock + RECONNECT_INITIAL_BACKOFF]_vars

\* run() starts a connection attempt in this step.
AttemptStarts == apc # "connecting" /\ apc' = "connecting"

\* The Register of the running attempt is sent in this step.
RegisterSent == apc = "connecting" /\ apc' = "await_ack"

----------------------------------------------------------------------------
(* Properties of the codec *)

\* C21: decoding the encoding of a wire message gives the message back,
\* correlation id included.
C21_RoundTrip == wireBack # NoMsg => wireBack = wireMsg

C21_Witness ==
    /\ wireBack # NoMsg
    /\ wireMsg.variant = "Error"
    /\ wireMsg.correlation_id # None
    /\ wireBack.correlation_id = wireMsg.correlation_id

====
